---------------------------- MODULE Spec2Model ----------------------------
(***************************************************************************)
(* Two-Lambda WhatsApp webhook pipeline:                                   *)
(*   provider -> webhook receiver -> SQS queue -> db-processor -> store    *)
(* The receiver (webhook-receiver/index.js) and the batch processor        *)
(* (db-processor/index.js) are modelled handler by handler, one action per *)
(* suspension point (store query, queue call).                             *)
(***************************************************************************)
EXTENDS Integers, Sequences, FiniteSets, TLC

(***************************************************************************)
(* Bounds of the model                                                     *)
(***************************************************************************)
MaxQueue == 2          \* envelopes the receiver may publish in one run
MaxOutages == 1        \* store / queue outages that may start in one run
MaxEnvelopes == 2      \* envelopes in the queue when concurrent executions start
MaxBatch == 3          \* envelopes delivered as one batch to one execution

\* SQS redrive policy: "Max Retries: 3 attempts", then the dead-letter queue
MaxReceiveCount == 3

NULL == "NULL"         \* JavaScript null / undefined

(***************************************************************************)
(* Provider payloads.  A delivery body is JSON text; the text is named by  *)
(* a payload id and PayloadOf gives the value JSON.parse yields.           *)
(*   { entry: [ { id, changes: [ { field, value: { metadata:               *)
(*       { phone_number_id }, statuses?: [...], messages?: [...] } } ] } ] } *)
(* An absent statuses / messages array is written <<>>.                    *)
(***************************************************************************)
StatusEvent(id, st, ts) ==
    [kind |-> "status", id |-> id, status |-> st, timestamp |-> ts,
     type |-> NULL, context |-> NULL, errors |-> <<>>]

\* one entry of a status event's errors array
ErrorEntry(code, title, message) == [code |-> code, title |-> title, message |-> message]

FailedEvent(id, ts, errors) ==
    [kind |-> "status", id |-> id, status |-> "failed", timestamp |-> ts,
     type |-> NULL, context |-> NULL, errors |-> errors]

\* An optional member of a JSON object is written <<>> when it is absent and
\* <<v>> when it is present with value v.
Absent == <<>>
Present(v) == <<v>>

\* one element of a change's messages array, as handleIncomingMessage
\* destructures it (id, from, timestamp and context are kept by MessageEvent)
NoMessage ==
    [type |-> NULL, text |-> Absent, image |-> Absent, video |-> Absent,
     audio |-> Absent, document |-> Absent, location |-> Absent,
     contacts |-> Absent, interactive |-> Absent, button |-> Absent]

TypedMessage(type, member, obj) == [NoMessage EXCEPT !.type = type, ![member] = obj]

TextObject(body) == [body |-> body]

\* image / video / audio / document objects
MediaObject(caption, filename, id, mime, size) ==
    [caption |-> caption, filename |-> filename, id |-> id, mime_type |-> mime,
     file_size |-> size]

LocationObject(latitude, longitude, name) ==
    [latitude |-> latitude, longitude |-> longitude, name |-> name]

\* one element of the contacts array: { name: { formatted_name } }
ContactObject(formattedName) == [formatted_name |-> formattedName]

ReplyObject(id, title, description) ==
    [id |-> id, title |-> title, description |-> description]

InteractiveObject(type, buttonReply, listReply) ==
    [type |-> type, button_reply |-> buttonReply, list_reply |-> listReply]

ButtonObject(payload, text) == [payload |-> payload, text |-> text]

\* a message of the given type with the member of that type filled in
SampleMessage(ty) ==
    IF ty = "image"
    THEN TypedMessage("image", "image",
             Present(MediaObject(NULL, NULL, "media1", "image/jpeg", Absent)))
    ELSE TypedMessage(ty, "text", Present(TextObject("Hello")))

TypedMessageEvent(id, message, ctx) ==
    [kind |-> "message", id |-> id, status |-> NULL, timestamp |-> 1,
     type |-> message.type, context |-> ctx, errors |-> <<>>, message |-> message]

MessageEvent(id, ty, ctx) == TypedMessageEvent(id, SampleMessage(ty), ctx)

Change(field, phone, statuses, messages) ==
    [field |-> field, phone_number_id |-> phone,
     statuses |-> statuses, messages |-> messages]

Entry(id, changes) == [id |-> id, changes |-> changes]

\* Messages of the provider's types, with the optional members present and
\* absent: the inputs of the content switch of handleIncomingMessage
MediaObjects(captions, filenames) ==
    {MediaObject(c, f, i, m, z) :
        c \in captions, f \in filenames, i \in {NULL, "media1"},
        m \in {NULL, "image/jpeg"}, z \in {Absent, Present(1024)}}

MessagesOf(type, member, objects) ==
    {TypedMessage(type, member, Absent)}
        \cup {TypedMessage(type, member, Present(o)) : o \in objects}

TextMessages == MessagesOf("text", "text", {TextObject(b) : b \in {NULL, "", "Hello"}})

ImageMessages == MessagesOf("image", "image", MediaObjects({NULL, "", "Sunset"}, {NULL}))

VideoMessages == MessagesOf("video", "video", MediaObjects({NULL, "", "Sunset"}, {NULL}))

AudioMessages == MessagesOf("audio", "audio", MediaObjects({NULL, "Voice note"}, {NULL}))

DocumentMessages ==
    MessagesOf("document", "document",
               MediaObjects({NULL, "", "Quarterly report"}, {NULL, "report.pdf"}))

LocationMessages ==
    MessagesOf("location", "location",
               {LocationObject(la, lo, n) :
                   la \in {Absent, Present(12)},
                   lo \in {Absent, Present(0), Present(-77)},
                   n \in {NULL, "", "Office"}})

ContactsMessages ==
    MessagesOf("contacts", "contacts",
               {<<>>, <<ContactObject("Asha Rao"), ContactObject("Ben")>>}
                   \cup {<<ContactObject(n)>> : n \in {NULL, "", "Asha Rao"}})

ButtonReplyMessages ==
    {TypedMessage("interactive", "interactive",
         Present(InteractiveObject("button_reply",
                     Present(ReplyObject("btn_" \o t, t, NULL)), Absent))) :
        t \in {"Yes", "No"}}

ListReplyMessages ==
    {TypedMessage("interactive", "interactive",
         Present(InteractiveObject("list_reply", Absent,
                     Present(ReplyObject("row_1", "Option A", d))))) :
        d \in {NULL, "Details"}}

\* interactive messages without a recognised reply, the quick-reply button
\* of a template, and a type the switch does not name
OtherMessages ==
    {TypedMessage("interactive", "interactive", Absent),
     TypedMessage("interactive", "interactive",
         Present(InteractiveObject("nfm_reply", Absent, Absent))),
     TypedMessage("interactive", "interactive",
         Present(InteractiveObject("button_reply", Absent, Absent))),
     TypedMessage("button", "button", Present(ButtonObject("payload1", "Yes"))),
     TypedMessage("sticker", "text", Absent)}

ContentMessages ==
    TextMessages \cup ImageMessages \cup VideoMessages \cup AudioMessages
        \cup DocumentMessages \cup LocationMessages \cup ContactsMessages
        \cup ButtonReplyMessages \cup ListReplyMessages \cup OtherMessages

\* JSON.stringify of a delivery that carries one message: the text names the
\* message, and JSON.parse (PayloadOf) finds the message the text names
Stringify(message) == ToString(message)

ContentPayloadIds == {Stringify(m) : m \in ContentMessages}

PayloadIds ==
    {"st_read", "st_delivered", "st_sent", "st_failed", "st_two", "msg_a",
     "msg_b", "msg_reply", "mixed", "org2_msg", "inactive", "by_phone",
     "unknown", "empty", "st_norow", "msg_reply_unknown", "org2_reply",
     "acct1_phone2", "acct9_phone2", "acct3_phone1", "org2_status",
     "st_notime", "two_entries", "two_entries_unknown"}

PayloadOf(pid) ==
    CASE pid = "st_read" ->
           <<Entry("waba1", <<Change("messages", "ph1",
                <<StatusEvent("wamid1", "read", 3)>>, <<>>)>>)>>
      [] pid = "st_delivered" ->
           <<Entry("waba1", <<Change("messages", "ph1",
                <<StatusEvent("wamid1", "delivered", 2)>>, <<>>)>>)>>
      [] pid = "st_notime" ->
           <<Entry("waba1", <<Change("messages", "ph1",
                <<StatusEvent("wamid2", "delivered", 0)>>, <<>>)>>)>>
      [] pid = "two_entries" ->
           <<Entry("waba1", <<Change("messages", "ph1", <<>>,
                <<MessageEvent("in13", "text", NULL)>>)>>),
             Entry("waba2", <<Change("messages", "ph2",
                <<StatusEvent("wamid3", "read", 3)>>,
                <<MessageEvent("in14", "text", NULL)>>)>>)>>
      [] pid = "two_entries_unknown" ->
           <<Entry("waba1", <<Change("messages", "ph1", <<>>,
                <<MessageEvent("in15", "text", NULL)>>)>>),
             Entry("waba9", <<Change("messages", "ph9", <<>>,
                <<MessageEvent("in16", "text", NULL)>>)>>)>>
      [] pid = "st_sent" ->
           <<Entry("waba1", <<Change("messages", "ph1",
                <<StatusEvent("wamid1", "sent", 1)>>, <<>>)>>)>>
      [] pid = "st_failed" ->
           <<Entry("waba1", <<Change("messages", "ph1",
                <<FailedEvent("wamid1", 2,
                      <<ErrorEntry("131026", "Message undeliverable", "not on WhatsApp"),
                        ErrorEntry("131047", "Re-engagement message", NULL)>>)>>,
                <<>>)>>)>>
      [] pid = "st_two" ->
           <<Entry("waba1", <<Change("messages", "ph1",
                <<StatusEvent("wamid1", "delivered", 2),
                  StatusEvent("wamid2", "sent", 1)>>, <<>>)>>)>>
      [] pid = "st_norow" ->
           <<Entry("waba1", <<Change("messages", "ph1",
                <<StatusEvent("wamid9", "delivered", 2),
                  StatusEvent("wamid3", "read", 3)>>, <<>>)>>)>>
      [] pid = "msg_a" ->
           <<Entry("waba1", <<Change("messages", "ph1", <<>>,
                <<MessageEvent("in1", "text", NULL)>>)>>)>>
      [] pid = "msg_b" ->
           <<Entry("waba1", <<Change("messages", "ph1", <<>>,
                <<MessageEvent("in2", "image", NULL)>>)>>)>>
      [] pid = "msg_reply" ->
           <<Entry("waba1", <<Change("messages", "ph1", <<>>,
                <<MessageEvent("in3", "text", "wamid1")>>)>>)>>
      [] pid = "msg_reply_unknown" ->
           <<Entry("waba1", <<Change("messages", "ph1", <<>>,
                <<MessageEvent("in8", "text", "wamid404")>>)>>)>>
      [] pid = "org2_reply" ->
           <<Entry("waba2", <<Change("messages", "ph2", <<>>,
                <<MessageEvent("in9", "text", "wamid1")>>)>>)>>
      [] pid = "acct1_phone2" ->
           <<Entry("waba1", <<Change("messages", "ph2", <<>>,
                <<MessageEvent("in10", "text", NULL)>>)>>)>>
      [] pid = "acct9_phone2" ->
           <<Entry("waba9", <<Change("messages", "ph2", <<>>,
                <<MessageEvent("in11", "text", NULL)>>)>>)>>
      [] pid = "acct3_phone1" ->
           <<Entry("waba3", <<Change("messages", "ph1", <<>>,
                <<MessageEvent("in12", "text", NULL)>>)>>)>>
      [] pid = "org2_status" ->
           <<Entry("waba2", <<Change("messages", "ph2",
                <<StatusEvent("wamid1", "read", 3)>>, <<>>)>>)>>
      [] pid = "mixed" ->
           <<Entry("waba1", <<Change("messages", "ph1",
                <<StatusEvent("wamid2", "delivered", 2)>>,
                <<MessageEvent("in1", "text", NULL)>>)>>)>>
      [] pid = "org2_msg" ->
           <<Entry("waba2", <<Change("messages", "ph2", <<>>,
                <<MessageEvent("in4", "text", NULL)>>)>>)>>
      [] pid = "inactive" ->
           <<Entry("waba3", <<Change("messages", "ph3", <<>>,
                <<MessageEvent("in5", "text", NULL)>>)>>)>>
      [] pid = "by_phone" ->
           <<Entry(NULL, <<Change("messages", "ph1", <<>>,
                <<MessageEvent("in6", "text", NULL)>>)>>)>>
      [] pid = "unknown" ->
           <<Entry("waba9", <<Change("messages", "ph9", <<>>,
                <<MessageEvent("in7", "text", NULL)>>)>>)>>
      [] pid = "empty" -> <<>>
      [] OTHER ->
           <<Entry("waba1", <<Change("messages", "ph1", <<>>,
                <<TypedMessageEvent("in1",
                      CHOOSE m \in ContentMessages : Stringify(m) = pid, NULL)>>)>>)>>

(***************************************************************************)
(* organizations table (read-only for this pipeline)                       *)
(***************************************************************************)
Org(id, status, waba, phone, token, secret) ==
    [id |-> id, status |-> status,
     whatsapp_business_account_id |-> waba,
     whatsapp_phone_number_id |-> phone,
     whatsapp_webhook_verify_token |-> token,
     whatsapp_app_secret |-> secret]

InitOrganizations ==
    {Org("org1", "active", "waba1", "ph1", "tok1", "sec1"),
     Org("org2", "active", "waba2", "ph2", "tok2", NULL),
     Org("org3", "inactive", "waba3", "ph3", "tok3", "sec3"),
     Org("org4", "suspended", "waba4", "ph4", "tok4", NULL)}

VARIABLES
    organizations,   \* organizations table
    dbUp,            \* the relational store answers queries
    sqsUp,           \* the queue accepts sendMessage
    outages,         \* outages started so far (bounded by MaxOutages)
    sqsQueue,        \* messages held by the queue
    nextSqsId,       \* next MessageId the queue hands out
    rcvPc,           \* receiver execution: position in the handler
    rcvReq,          \* receiver execution: the API Gateway event
    rcvOrg,          \* receiver execution: organization (id) found so far
    rcvSqsResult,    \* receiver execution: result of sqs.sendMessage
    rcvSends,        \* receiver execution: acknowledged sendMessage calls
    rcvResp,         \* receiver execution: the response returned
    sqsDeleted,      \* messages the Lambda runtime deleted after a batch
    sqsDeadLetters,  \* messages moved to the dead-letter queue
    messages,        \* messages table (message ledger)
    campaign_audience, \* campaign_audience table
    campaigns,       \* campaigns table: the aggregate counters
    incoming_messages, \* incoming_messages table, in insertion order
    webhook_events,  \* webhook_events table (audit log), in insertion order
    proc             \* db-processor executions: position and locals

envVars == <<organizations, dbUp, sqsUp, outages>>
queueVars == <<sqsQueue, nextSqsId>>
rcvVars == <<rcvPc, rcvReq, rcvOrg, rcvSqsResult, rcvSends, rcvResp>>
runtimeVars == <<sqsDeleted, sqsDeadLetters>>
storeVars == <<messages, campaign_audience, campaigns, incoming_messages,
               webhook_events>>
vars == <<envVars, queueVars, rcvVars, runtimeVars, storeVars, proc>>


(***************************************************************************)
(* Requests of the provider (API Gateway proxy events)                     *)
(***************************************************************************)
\* crypto.createHmac("sha256", secret).update(payload).digest("hex"): an ideal
\* keyed hash (no collisions), 64 hex characters long.
HmacSha256Hex(payload, secret) == [body |-> payload, secret |-> secret, len |-> 64]

\* The x-hub-signature-256 header: an optional "sha256=" prefix, the leading
\* hexadecimal digits (hex) and whatever text follows them (tail).
NoSignature == [present |-> FALSE, prefixed |-> FALSE,
                hex |-> [body |-> NULL, secret |-> NULL, len |-> 0], tail |-> ""]

SignatureHeaderWithTail(prefixed, hex, tail) ==
    [present |-> TRUE, prefixed |-> prefixed, hex |-> hex, tail |-> tail]

SignatureHeader(prefixed, hex) == SignatureHeaderWithTail(prefixed, hex, "")

\* Buffer.from(text, "hex"): two digits give one byte; decoding stops at the
\* first character that is not a hexadecimal digit and drops a single last
\* digit, so the text after the leading digits does not reach the buffer
BufferFromHex(hex) ==
    [body |-> hex.body, secret |-> hex.secret, byteLength |-> hex.len \div 2]

SignaturesFor(body) ==
    {NoSignature,
     SignatureHeader(TRUE, HmacSha256Hex(body, "sec1")),
     SignatureHeader(TRUE, HmacSha256Hex(body, "sec9")),
     SignatureHeader(TRUE, HmacSha256Hex("tampered", "sec1")),
     SignatureHeader(TRUE, [body |-> body, secret |-> "sec1", len |-> 10]),
     SignatureHeader(FALSE, HmacSha256Hex(body, "sec1")),
     SignatureHeaderWithTail(TRUE, HmacSha256Hex(body, "sec1"), "zz")}

NoRequest == [httpMethod |-> NULL, mode |-> NULL, token |-> NULL,
              challenge |-> NULL, body |-> NULL, signature |-> NoSignature]

VerificationRequests ==
    {[httpMethod |-> "GET", mode |-> m, token |-> t, challenge |-> "ch1",
      body |-> NULL, signature |-> NoSignature] :
        m \in {"subscribe", "unsubscribe", NULL},
        t \in {"tok1", "tok2", "tok3", "tok4", "tok9", NULL}}

DeliveryBodies == {"msg_a", "st_read", "org2_msg", "inactive", "by_phone",
                   "unknown", "empty", "malformed", "acct1_phone2", "acct9_phone2",
                   "acct3_phone1"}

DeliveryRequests ==
    UNION {{[httpMethod |-> "POST", mode |-> NULL, token |-> NULL,
             challenge |-> NULL, body |-> b, signature |-> s] :
                s \in SignaturesFor(b)} : b \in DeliveryBodies}

OtherRequests ==
    {[httpMethod |-> "PUT", mode |-> NULL, token |-> NULL, challenge |-> NULL,
      body |-> NULL, signature |-> NoSignature]}

Requests == VerificationRequests \cup DeliveryRequests \cup OtherRequests

\* JSON.parse of a request body: throws on text that is not JSON
JsonParses(text) == text \in PayloadIds \cup ContentPayloadIds

NoResponse == [statusCode |-> 0, body |-> NULL, messageId |-> 0]
Response(code, body, mid) == [statusCode |-> code, body |-> body, messageId |-> mid]

(***************************************************************************)
(* Receiver: organization lookups (SELECT ... AND status = 'active')       *)
(***************************************************************************)
\* the same lookup without the status filter
OrgsBy(field, value) == {o \in organizations : o[field] = value}

ActiveOrgsBy(field, value) ==
    {o \in organizations : o[field] = value /\ o.status = "active"}

\* result.rows[0] || null, as the id of the row
FirstRowId(rows) == IF rows = {} THEN NULL ELSE (CHOOSE o \in rows : TRUE).id

OrgById(id) == CHOOSE o \in organizations : o.id = id

\* findOrganizationByBusinessAccountId / findOrganizationByPhoneNumberId:
\* a query error is caught and answered null
ReceiverFindOrg(field, value) ==
    IF dbUp THEN FirstRowId(ActiveOrgsBy(field, value)) ELSE NULL

Truthy(v) == v # NULL /\ v # ""

FirstEntryId(payload) == IF Len(payload) > 0 THEN payload[1].id ELSE NULL

FirstPhoneNumberId(payload) ==
    IF Len(payload) > 0 /\ Len(payload[1].changes) > 0
    THEN payload[1].changes[1].phone_number_id
    ELSE NULL

(***************************************************************************)
(* Receiver: signature                                                     *)
(***************************************************************************)
\* a comparison that stops at the lengths of the two digests
verifyWebhookSignatureLengthOnly(payload, signature, secret) ==
    signature.present /\ signature.hex.len = HmacSha256Hex(payload, secret).len

\* Buffer lengths differ -> timingSafeEqual throws -> caught -> false
verifyWebhookSignature(payload, signature, secret) ==
    IF ~signature.present
    THEN FALSE
    ELSE LET expectedSignature == HmacSha256Hex(payload, secret)
             received == BufferFromHex(signature.hex)
             expected == BufferFromHex(expectedSignature)
         IN  IF received.byteLength # expected.byteLength
             THEN FALSE
             ELSE received = expected

(***************************************************************************)
(* Receiver: metadata and queue envelope                                   *)
(***************************************************************************)
RECURSIVE SumLens(_, _)
SumLens(changes, field) ==
    IF changes = <<>> THEN 0
    ELSE (IF Head(changes).field = "messages" THEN Len(Head(changes)[field]) ELSE 0)
         + SumLens(Tail(changes), field)

RECURSIVE AllChanges(_)
AllChanges(payload) ==
    IF payload = <<>> THEN <<>>
    ELSE Head(payload).changes \o AllChanges(Tail(payload))

RECURSIVE LastTruthy(_, _)
LastTruthy(seq, dflt) ==
    IF seq = <<>> THEN dflt
    ELSE LET last == seq[Len(seq)]
         IN  IF Truthy(last) THEN last ELSE LastTruthy(SubSeq(seq, 1, Len(seq) - 1), dflt)

extractWebhookMetadata(payload) ==
    LET changes == AllChanges(payload)
        msgChanges == SelectSeq(changes, LAMBDA c : c.field = "messages")
    IN  [eventType |-> "webhook",
         businessAccountId |-> LastTruthy([i \in 1..Len(payload) |-> payload[i].id], NULL),
         phoneNumberId |->
             LastTruthy([i \in 1..Len(msgChanges) |-> msgChanges[i].phone_number_id], NULL),
         hasMessages |-> \E i \in 1..Len(msgChanges) : msgChanges[i].messages # <<>>,
         hasStatuses |-> \E i \in 1..Len(msgChanges) : msgChanges[i].statuses # <<>>,
         messageCount |-> SumLens(changes, "messages"),
         statusCount |-> SumLens(changes, "statuses")]

\* a message body that is the payload's text without the envelope around it
EnvelopeBodyUnwrapped(bodyText) ==
    [wellFormed |-> FALSE, webhookPayload |-> bodyText, receivedAt |-> 0]

\* MessageBody of sendToSQS: JSON.stringify({webhookPayload, metadata, ...})
EnvelopeBody(bodyText) ==
    [wellFormed |-> TRUE, webhookPayload |-> bodyText, receivedAt |-> 1]

MalformedBody == [wellFormed |-> FALSE, webhookPayload |-> NULL, receivedAt |-> 0]

SqsMessage(id, body) ==
    [MessageId |-> id, Body |-> body, receiveCount |-> 0, visible |-> TRUE]


(***************************************************************************)
(* Initial state                                                           *)
(***************************************************************************)
InitEnv ==
    /\ organizations = InitOrganizations
    /\ dbUp = TRUE
    /\ sqsUp = TRUE
    /\ outages = 0

InitReceiver ==
    /\ rcvPc = "idle"
    /\ rcvReq = NoRequest
    /\ rcvOrg = NULL
    /\ rcvSqsResult = 0
    /\ rcvSends = 0
    /\ rcvResp = NoResponse

(***************************************************************************)
(* Environment: the store and the queue service fail and recover           *)
(***************************************************************************)
StoreFails ==
    /\ dbUp /\ outages < MaxOutages
    /\ dbUp' = FALSE /\ outages' = outages + 1
    /\ UNCHANGED <<organizations, sqsUp, queueVars, rcvVars, runtimeVars, storeVars, proc>>

StoreRecovers ==
    /\ ~dbUp
    /\ dbUp' = TRUE
    /\ UNCHANGED <<organizations, sqsUp, outages>>
    /\ UNCHANGED <<queueVars, rcvVars, runtimeVars, storeVars, proc>>

QueueFails ==
    /\ sqsUp /\ outages < MaxOutages
    /\ sqsUp' = FALSE /\ outages' = outages + 1
    /\ UNCHANGED <<organizations, dbUp, queueVars, rcvVars, runtimeVars, storeVars, proc>>

QueueRecovers ==
    /\ ~sqsUp
    /\ sqsUp' = TRUE
    /\ UNCHANGED <<organizations, dbUp, outages>>
    /\ UNCHANGED <<queueVars, rcvVars, runtimeVars, storeVars, proc>>

(***************************************************************************)
(* Receiver (webhook-receiver/index.js)                                    *)
(***************************************************************************)
RcvReturn(resp) ==
    /\ rcvPc' = "idle"
    /\ rcvResp' = resp

\* a catch block that answers a client error
handleWebhookEventCatchBadRequest == Response(400, "Bad request", 0)

\* a catch block that answers success
handleWebhookEventCatchSuccess == Response(200, "success", 0)

\* the catch block of handleWebhookEvent
handleWebhookEventCatch == Response(500, "Failed to process webhook", 0)

\* a handler that checks the signature of every resolved delivery, with the
\* empty secret when the organization has none
AuthenticateDeliveryAlways(org) ==
    IF org = NULL
    THEN /\ RcvReturn(Response(403, "Organization not found", 0))
         /\ rcvOrg' = NULL
    ELSE /\ rcvOrg' = org
         /\ IF ~verifyWebhookSignature(rcvReq.body, rcvReq.signature,
                                       OrgById(org).whatsapp_app_secret)
            THEN RcvReturn(Response(403, "Invalid signature", 0))
            ELSE /\ rcvPc' = "send_sqs"
                 /\ rcvResp' = rcvResp

\* handleWebhookEvent once the organization lookup has answered org (an id or
\* NULL): the 403 answers, the signature check, and on to sendToSQS.
AuthenticateDelivery(org) ==
    IF org = NULL
    THEN /\ RcvReturn(Response(403, "Organization not found", 0))
         /\ rcvOrg' = NULL
    ELSE /\ rcvOrg' = org
         /\ IF /\ Truthy(OrgById(org).whatsapp_app_secret)
               /\ ~verifyWebhookSignature(rcvReq.body, rcvReq.signature,
                                          OrgById(org).whatsapp_app_secret)
            THEN RcvReturn(Response(403, "Invalid signature", 0))
            ELSE /\ rcvPc' = "send_sqs"
                 /\ rcvResp' = rcvResp

\* a handler that lets any other method through as a success
MethodAccepted == Response(200, "success", 0)

\* exports.handler: the answer to a method that is neither GET nor POST
MethodNotAllowed == Response(405, "Method not allowed", 0)

\* exports.handler up to the first await of the request's path
RcvReceive(req) ==
    /\ rcvPc = "idle"
    /\ Len(sqsQueue) < MaxQueue
    /\ nextSqsId <= MaxQueue
    /\ rcvReq' = req
    /\ rcvOrg' = NULL
    /\ rcvSqsResult' = 0
    /\ rcvSends' = 0
    /\ CASE req.httpMethod = "GET" ->
              IF req.mode # "subscribe"
              THEN RcvReturn(Response(403, "Verification failed - invalid mode", 0))
              ELSE IF ~Truthy(req.token)
              THEN RcvReturn(Response(403, "Verification failed - invalid token", 0))
              ELSE /\ rcvPc' = "verify_token"
                   /\ rcvResp' = NoResponse
         [] req.httpMethod = "POST" ->
              IF ~JsonParses(req.body)
              THEN RcvReturn(handleWebhookEventCatch)
              ELSE LET body == PayloadOf(req.body)
                   IN  IF Truthy(FirstEntryId(body))
                       THEN rcvPc' = "find_by_account" /\ rcvResp' = NoResponse
                       ELSE IF Truthy(FirstPhoneNumberId(body))
                       THEN rcvPc' = "find_by_phone" /\ rcvResp' = NoResponse
                       ELSE RcvReturn(Response(403, "Organization not found", 0))
         [] OTHER -> RcvReturn(MethodNotAllowed)
    /\ UNCHANGED <<envVars, queueVars, runtimeVars, storeVars, proc>>

\* a verification that records the request in the audit log
RcvVerifyTokenRecorded ==
    /\ rcvPc = "verify_token"
    /\ RcvReturn(Response(200, rcvReq.challenge, 0))
    /\ webhook_events' = Append(webhook_events,
            [event_type |-> "verification", token |-> rcvReq.token])
    /\ UNCHANGED <<envVars, queueVars, runtimeVars, proc>>
    /\ UNCHANGED <<messages, campaign_audience, campaigns, incoming_messages>>
    /\ UNCHANGED <<rcvReq, rcvOrg, rcvSqsResult, rcvSends>>

\* verifyWebhookToken: the query; an error is caught and answered false
RcvVerifyToken ==
    /\ rcvPc = "verify_token"
    /\ LET isValidToken ==
               dbUp /\ ActiveOrgsBy("whatsapp_webhook_verify_token", rcvReq.token) # {}
       IN  IF isValidToken
           THEN RcvReturn(Response(200, rcvReq.challenge, 0))
           ELSE RcvReturn(Response(403, "Verification failed - invalid token", 0))
    /\ UNCHANGED <<envVars, queueVars, runtimeVars, storeVars, proc>>
    /\ UNCHANGED <<rcvReq, rcvOrg, rcvSqsResult, rcvSends>>

RcvFindByAccount ==
    /\ rcvPc = "find_by_account"
    /\ LET body == PayloadOf(rcvReq.body)
           org == ReceiverFindOrg("whatsapp_business_account_id", FirstEntryId(body))
       IN  IF org = NULL /\ Truthy(FirstPhoneNumberId(body))
           THEN /\ rcvPc' = "find_by_phone"
                /\ UNCHANGED <<rcvOrg, rcvResp>>
           ELSE AuthenticateDelivery(org)
    /\ UNCHANGED <<envVars, queueVars, runtimeVars, storeVars, proc>>
    /\ UNCHANGED <<rcvReq, rcvSqsResult, rcvSends>>

RcvFindByPhone ==
    /\ rcvPc = "find_by_phone"
    /\ LET body == PayloadOf(rcvReq.body)
       IN  AuthenticateDelivery(
               ReceiverFindOrg("whatsapp_phone_number_id", FirstPhoneNumberId(body)))
    /\ UNCHANGED <<envVars, queueVars, runtimeVars, storeVars, proc>>
    /\ UNCHANGED <<rcvReq, rcvSqsResult, rcvSends>>

\* sqs.sendMessage(params).promise(): the queue stores the message and
\* acknowledges it with its MessageId, or the call rejects
RcvSendToSQS ==
    /\ rcvPc = "send_sqs"
    /\ IF sqsUp
       THEN /\ sqsQueue' = Append(sqsQueue,
                                  SqsMessage(nextSqsId, EnvelopeBody(rcvReq.body)))
            /\ nextSqsId' = nextSqsId + 1
            /\ rcvSqsResult' = nextSqsId
            /\ rcvSends' = rcvSends + 1
            /\ rcvPc' = "sent"
            /\ UNCHANGED rcvResp
       ELSE /\ RcvReturn(handleWebhookEventCatch)
            /\ UNCHANGED <<queueVars, rcvSqsResult, rcvSends>>
    /\ UNCHANGED <<envVars, runtimeVars, storeVars, proc, rcvReq, rcvOrg>>

\* handleWebhookEvent after the await of sendToSQS
RcvRespond ==
    /\ rcvPc = "sent"
    /\ RcvReturn(Response(200, "success", rcvSqsResult))
    /\ UNCHANGED <<envVars, queueVars, runtimeVars, storeVars, proc>>
    /\ UNCHANGED <<rcvReq, rcvOrg, rcvSqsResult, rcvSends>>

ReceiverStep ==
    \/ \E req \in Requests : RcvReceive(req)
    \/ RcvVerifyToken
    \/ RcvFindByAccount
    \/ RcvFindByPhone
    \/ RcvSendToSQS
    \/ RcvRespond


(***************************************************************************)
(* Store: the ledgers                                                      *)
(***************************************************************************)
LedgerRow(id, org, campaign, status, sentAt) ==
    [whatsapp_message_id |-> id, organization_id |-> org, campaign_id |-> campaign,
     message_status |-> status, sent_at |-> sentAt, delivered_at |-> 0,
     read_at |-> 0, failed_at |-> 0, failure_reason |-> NULL]

\* position of a status in the lifecycle pending, sent, delivered, read
StatusRank(status) ==
    CASE status = "pending" -> 0
      [] status = "sent" -> 1
      [] status = "delivered" -> 2
      [] status = "read" -> 3
      [] OTHER -> 4

\* an update that records the stage timestamp but never moves the status back
SetStatusForwardOnly(row, status, timestamp) ==
    LET kept == IF StatusRank(status) > StatusRank(row.message_status)
                THEN status ELSE row.message_status
    IN  CASE status = "delivered" ->
               [row EXCEPT !.message_status = kept, !.delivered_at = timestamp]
          [] status = "read" ->
               [row EXCEPT !.message_status = kept, !.read_at = timestamp]
          [] status = "sent" ->
               [row EXCEPT !.message_status = kept, !.sent_at = timestamp]
          [] OTHER -> [row EXCEPT !.message_status = kept]

\* UPDATE ... SET message_status = $1 [, <stage>_at = $2] of one row
SetStatus(row, status, timestamp) ==
    CASE status = "delivered" ->
           [row EXCEPT !.message_status = status, !.delivered_at = timestamp]
      [] status = "read" ->
           [row EXCEPT !.message_status = status, !.read_at = timestamp]
      [] status = "sent" ->
           [row EXCEPT !.message_status = status, !.sent_at = timestamp]
      [] OTHER -> [row EXCEPT !.message_status = status]

\* an update that inserts the row when there is none
MessageUpsertStatus(table, whatsappMessageId, status, timestamp) ==
    IF \E r \in table : r.whatsapp_message_id = whatsappMessageId
    THEN {IF r.whatsapp_message_id = whatsappMessageId
          THEN SetStatus(r, status, timestamp) ELSE r : r \in table}
    ELSE table \cup {SetStatus(LedgerRow(whatsappMessageId, NULL, NULL, "pending", 0),
                               status, timestamp)}

\* Message.updateStatus: UPDATE messages ... WHERE whatsapp_message_id = $3
MessageUpdateStatus(table, whatsappMessageId, status, timestamp) ==
    {IF r.whatsapp_message_id = whatsappMessageId
     THEN SetStatus(r, status, timestamp) ELSE r : r \in table}

\* CampaignAudience.updateStatus: the UPDATE of campaign_audience
AudienceUpdateStatus(table, whatsappMessageId, status, timestamp) ==
    {IF r.whatsapp_message_id = whatsappMessageId
     THEN SetStatus(r, status, timestamp) ELSE r : r \in table}

\* CampaignAudience.updateWithFailure(whatsappMessageId, failureReason)
AudienceUpdateWithFailure(table, whatsappMessageId, failureReason, now) ==
    {IF r.whatsapp_message_id = whatsappMessageId
     THEN [r EXCEPT !.message_status = "failed", !.failure_reason = failureReason,
                    !.failed_at = now]
     ELSE r : r \in table}

\* a lookup that finds no row
RowsByNoId(table, whatsappMessageId) == {}

RowsByWhatsAppId(table, whatsappMessageId) ==
    {r \in table : r.whatsapp_message_id = whatsappMessageId}

\* counts by the stage timestamps that are set instead of by the status
CampaignStatsByTimestamps(table, campaignId) ==
    LET rows == {r \in table : r.campaign_id = campaignId}
    IN  [total_targeted_audience |-> Cardinality(rows),
         total_sent |-> Cardinality({r \in rows : r.sent_at # 0}),
         total_delivered |-> Cardinality({r \in rows : r.delivered_at # 0}),
         total_read |-> Cardinality({r \in rows : r.read_at # 0}),
         total_failed |-> Cardinality({r \in rows : r.failed_at # 0})]

\* CampaignAudience.updateCampaignStats: the SELECT COUNT(...) of one campaign
CampaignStats(table, campaignId) ==
    LET rows == {r \in table : r.campaign_id = campaignId}
        n(st) == Cardinality({r \in rows : r.message_status = st})
    IN  [total_targeted_audience |-> Cardinality(rows), total_sent |-> n("sent"),
         total_delivered |-> n("delivered"), total_read |-> n("read"),
         total_failed |-> n("failed")]

\* wamid3 was sent outside any campaign: it has no campaign_audience row
InitMessages ==
    {LedgerRow("wamid1", "org1", "camp1", "sent", 1),
     LedgerRow("wamid2", "org1", "camp1", "pending", 0),
     LedgerRow("wamid3", "org1", NULL, "sent", 1)}

InitAudience == {r \in InitMessages : r.campaign_id # NULL}

(***************************************************************************)
(* Store: incoming_messages and webhook_events                             *)
(***************************************************************************)
\* value || null of the INSERT parameters, for text and for a number
OrNull(value) == IF value = "" THEN NULL ELSE value
NumberOrNull(value) == IF value = Present(0) THEN Absent ELSE value

IncomingRow(org, id, type, ctxMsg, ctxCampaign, extracted) ==
    [organization_id |-> org, whatsapp_message_id |-> id, message_type |-> type,
     content |-> extracted.content, media_url |-> OrNull(extracted.mediaUrl),
     media_type |-> OrNull(extracted.mediaType),
     media_size |-> NumberOrNull(extracted.mediaSize),
     interactive_type |->
         IF extracted.interactionData = Absent THEN NULL
         ELSE OrNull(extracted.interactionData[1].type),
     interactive_data |-> extracted.interactionData,
     context_message_id |-> ctxMsg, context_campaign_id |-> ctxCampaign,
     processed |-> FALSE]

\* a table without the UNIQUE constraint
NoUniqueConstraint(table, whatsappMessageId) == FALSE

\* whatsapp_message_id VARCHAR(255) UNIQUE NOT NULL
IncomingUniqueViolation(table, whatsappMessageId) ==
    \E i \in 1..Len(table) : table[i].whatsapp_message_id = whatsappMessageId

\* a duplicate check that never finds the row
isDuplicateNever(table, whatsappMessageId) == FALSE

\* IncomingMessage.isDuplicate: SELECT id ... WHERE whatsapp_message_id = $1
isDuplicate(table, whatsappMessageId) ==
    \E i \in 1..Len(table) : table[i].whatsapp_message_id = whatsappMessageId

AuditRow(org, campaign, eventType, id, status) ==
    [organization_id |-> org, campaign_id |-> campaign, event_type |-> eventType,
     whatsapp_message_id |-> id, status |-> status, processed |-> FALSE,
     error_message |-> NULL]

\* a marking that leaves the row as it was
markAsProcessedSkipped(table, id, errorMessage) == table

\* WebhookEvent.markAsProcessed(id, errorMessage = null)
markAsProcessed(table, id, errorMessage) ==
    [table EXCEPT ![id] = [@ EXCEPT !.processed = TRUE,
                                    !.error_message = errorMessage]]


(***************************************************************************)
(* db-processor: one execution of exports.handler                          *)
(***************************************************************************)
Procs == {1, 2}

NoStats == [total_targeted_audience |-> 0, total_sent |-> 0, total_delivered |-> 0,
            total_read |-> 0, total_failed |-> 0]

NoHandlerResponse ==
    [statusCode |-> 0, processedRecords |-> 0, successfulRecords |-> 0,
     failedRecords |-> 0, results |-> <<>>]

IdleProc ==
    [pc |-> "idle", batch |-> <<>>, recIdx |-> 0, results |-> <<>>,
     response |-> NoHandlerResponse, org |-> NULL, evIdx |-> 0,
     evResults |-> <<>>, webhookEvent |-> 0, incomingMessage |-> 0,
     messageUpdated |-> FALSE, caCampaign |-> NULL, stats |-> NoStats,
     ctxCampaign |-> NULL, ctxMessage |-> NULL, error |-> NULL]

RecordResult(success, messageId, error, processingResults) ==
    [success |-> success, messageId |-> messageId, error |-> error,
     processingResults |-> processingResults]

EventResult(type, success, ev, duplicate, messageUpdated, caUpdated, error) ==
    [type |-> type, success |-> success, id |-> ev.id, status |-> ev.status,
     duplicate |-> duplicate, messageUpdated |-> messageUpdated,
     campaignAudienceUpdated |-> caUpdated, error |-> error]

\* processWebhookEntry / processWebhookChange: the statuses, then the messages,
\* of every change with field "messages", entry by entry
RECURSIVE ChangeEvents(_)
ChangeEvents(changes) ==
    IF changes = <<>> THEN <<>>
    ELSE (IF Head(changes).field = "messages"
          THEN Head(changes).statuses \o Head(changes).messages
          ELSE <<>>) \o ChangeEvents(Tail(changes))

RECURSIVE EntryEvents(_)
EntryEvents(payload) ==
    IF payload = <<>> THEN <<>>
    ELSE ChangeEvents(Head(payload).changes) \o EntryEvents(Tail(payload))

CurrentRecord(st) == st.batch[st.recIdx]
CurrentPayload(st) == PayloadOf(CurrentRecord(st).Body.webhookPayload)
CurrentEvent(st) == EntryEvents(CurrentPayload(st))[st.evIdx]

\* the value exports.handler returns
HandlerResponse(results) ==
    [statusCode |-> 200,
     processedRecords |-> Len(results),
     successfulRecords |-> Len(SelectSeq(results, LAMBDA r : r.success)),
     failedRecords |-> Len(SelectSeq(results, LAMBDA r : ~r.success)),
     results |-> results]

\* processSQSRecord from its start to its first await (or, for a record that
\* fails before any await, on to the next record of the handler's loop)
RECURSIVE BeginRecord(_)
BeginRecord(st) ==
    IF st.recIdx > Len(st.batch)
    THEN [st EXCEPT !.pc = "returned", !.response = HandlerResponse(st.results)]
    ELSE LET rec == st.batch[st.recIdx]
             failed(msg) ==
                 BeginRecord([st EXCEPT
                     !.results = Append(@, RecordResult(FALSE, rec.MessageId, msg, <<>>)),
                     !.recIdx = @ + 1])
         IN  IF ~rec.Body.wellFormed
             THEN failed("Unexpected token")
             ELSE IF ~JsonParses(rec.Body.webhookPayload)
             THEN failed("Organization not found")
             ELSE LET payload == PayloadOf(rec.Body.webhookPayload)
                  IN  IF Truthy(FirstEntryId(payload))
                      THEN [st EXCEPT !.pc = "find_by_account"]
                      ELSE IF Truthy(FirstPhoneNumberId(payload))
                      THEN [st EXCEPT !.pc = "find_by_phone"]
                      ELSE failed("Organization not found")

\* a lookup failure that ends the handler's loop instead of the record
OrganizationNotFoundAborts(st) ==
    LET results == Append(st.results,
                          RecordResult(FALSE, CurrentRecord(st).MessageId,
                                       "Organization not found", <<>>))
    IN  [st EXCEPT !.results = results, !.pc = "returned",
                   !.response = HandlerResponse(results)]

\* processSQSRecord: the organization lookup answered null
OrganizationNotFound(st) ==
    BeginRecord([st EXCEPT
        !.results = Append(@, RecordResult(FALSE, CurrentRecord(st).MessageId,
                                           "Organization not found", <<>>)),
        !.recIdx = @ + 1])

\* processSQSRecord: all entries processed, the record's result
RecordSucceeded(st) ==
    BeginRecord([st EXCEPT
        !.results = Append(@, RecordResult(TRUE, CurrentRecord(st).MessageId,
                                           NULL, st.evResults)),
        !.recIdx = @ + 1])

\* the loops of processSQSRecord / processWebhookEntry / processWebhookChange
\* from event evIdx to the first await of its handler
BeginEvent(st) ==
    IF st.evIdx > Len(EntryEvents(CurrentPayload(st)))
    THEN RecordSucceeded(st)
    ELSE LET fresh == [st EXCEPT !.webhookEvent = 0, !.incomingMessage = 0,
                                 !.messageUpdated = FALSE, !.caCampaign = NULL,
                                 !.stats = NoStats, !.ctxCampaign = NULL,
                                 !.ctxMessage = NULL,
                                 !.error = NULL]
         IN  IF CurrentEvent(st).kind = "status"
             THEN [fresh EXCEPT !.pc = "status_create_event"]
             ELSE [fresh EXCEPT !.pc = "msg_is_duplicate"]

\* a loop that gives the envelope up at the first event that fails
FinishEventAborting(st, result) ==
    IF result.success
    THEN BeginEvent([st EXCEPT !.evResults = Append(@, result), !.evIdx = @ + 1])
    ELSE BeginRecord([st EXCEPT
             !.results = Append(@, RecordResult(FALSE, CurrentRecord(st).MessageId,
                                                result.error,
                                                Append(st.evResults, result))),
             !.recIdx = @ + 1])

\* processWebhookChange: results.push of one event, then the next event
FinishEvent(st, result) ==
    BeginEvent([st EXCEPT !.evResults = Append(@, result), !.evIdx = @ + 1])

\* processSQSRecord: the organization was found
OrganizationFound(st, org) ==
    BeginEvent([st EXCEPT !.org = org, !.evIdx = 1, !.evResults = <<>>])


\* CURRENT_TIMESTAMP of the store while the batch is processed
CurrentTimestamp == 9

\* the event's timestamp, else the time of processing
EventTimestampOrNow(ev, receivedAt) ==
    IF ev.timestamp # 0 THEN ev.timestamp ELSE CurrentTimestamp

\* timestamp ? new Date(parseInt(timestamp) * 1000) : new Date(receivedAt)
EventTimestamp(ev, receivedAt) ==
    IF ev.timestamp # 0 THEN ev.timestamp ELSE receivedAt

SetProc(p, st) == proc' = [proc EXCEPT ![p] = st]

\* Organization.findByWhatsApp...Id inside findOrganizationFromWebhook: a query
\* error is rethrown by the model and caught by findOrganizationFromWebhook,
\* which answers null
ProcFindByAccount(p) ==
    /\ proc[p].pc = "find_by_account"
    /\ LET st == proc[p]
           payload == CurrentPayload(st)
           rows == ActiveOrgsBy("whatsapp_business_account_id", FirstEntryId(payload))
       IN  IF ~dbUp
           THEN SetProc(p, OrganizationNotFound(st))
           ELSE IF rows # {}
           THEN SetProc(p, OrganizationFound(st, FirstRowId(rows)))
           ELSE IF Truthy(FirstPhoneNumberId(payload))
           THEN SetProc(p, [st EXCEPT !.pc = "find_by_phone"])
           ELSE SetProc(p, OrganizationNotFound(st))
    /\ UNCHANGED <<envVars, queueVars, rcvVars, runtimeVars, storeVars>>

ProcFindByPhone(p) ==
    /\ proc[p].pc = "find_by_phone"
    /\ LET st == proc[p]
           rows == ActiveOrgsBy("whatsapp_phone_number_id",
                                FirstPhoneNumberId(CurrentPayload(st)))
       IN  IF dbUp /\ rows # {}
           THEN SetProc(p, OrganizationFound(st, FirstRowId(rows)))
           ELSE SetProc(p, OrganizationNotFound(st))
    /\ UNCHANGED <<envVars, queueVars, rcvVars, runtimeVars, storeVars>>

(***************************************************************************)
(* db-processor: handleMessageStatus                                       *)
(***************************************************************************)
StatusFailed(st, msg) ==
    FinishEvent(st, EventResult("status_update", FALSE, CurrentEvent(st), FALSE,
                                FALSE, FALSE, msg))

StatusSucceeded(st, caUpdated) ==
    FinishEvent(st, EventResult("status_update", TRUE, CurrentEvent(st), FALSE,
                                st.messageUpdated, caUpdated, NULL))

\* WebhookEvent.create(...)
StatusCreateEvent(p) ==
    /\ proc[p].pc = "status_create_event"
    /\ LET st == proc[p]
           ev == CurrentEvent(st)
       IN  IF dbUp
           THEN /\ webhook_events' = Append(webhook_events,
                       AuditRow(st.org, NULL, "message_status", ev.id, ev.status))
                /\ SetProc(p, [st EXCEPT !.webhookEvent = Len(webhook_events) + 1,
                                         !.pc = "status_update_message"])
           ELSE /\ SetProc(p, StatusFailed(st, "store unavailable"))
                /\ UNCHANGED webhook_events
    /\ UNCHANGED <<envVars, queueVars, rcvVars, runtimeVars>>
    /\ UNCHANGED <<messages, campaign_audience, campaigns, incoming_messages>>

\* Message.updateStatus(whatsappMessageId, messageStatus, statusTimestamp);
\* an error is logged and dropped
StatusUpdateMessage(p) ==
    /\ proc[p].pc = "status_update_message"
    /\ LET st == proc[p]
           ev == CurrentEvent(st)
           ts == EventTimestamp(ev, CurrentRecord(st).Body.receivedAt)
       IN  IF dbUp
           THEN /\ messages' = MessageUpdateStatus(messages, ev.id, ev.status, ts)
                /\ SetProc(p, [st EXCEPT
                       !.messageUpdated = RowsByWhatsAppId(messages, ev.id) # {},
                       !.pc = "status_update_audience"])
           ELSE /\ SetProc(p, [st EXCEPT !.pc = "status_update_audience"])
                /\ UNCHANGED messages
    /\ UNCHANGED <<envVars, queueVars, rcvVars, runtimeVars>>
    /\ UNCHANGED <<campaign_audience, campaigns, incoming_messages, webhook_events>>

\* CampaignAudience.updateWithFailure(id, messageStatus, statusTimestamp,
\* errors[0]) when the event has errors, else CampaignAudience.updateStatus:
\* the UPDATE of the row; an error is logged and dropped
StatusUpdateAudience(p) ==
    /\ proc[p].pc = "status_update_audience"
    /\ LET st == proc[p]
           ev == CurrentEvent(st)
           ts == EventTimestamp(ev, CurrentRecord(st).Body.receivedAt)
           rows == RowsByWhatsAppId(campaign_audience, ev.id)
       IN  IF dbUp
           THEN /\ campaign_audience' =
                       IF Len(ev.errors) > 0
                       THEN AudienceUpdateWithFailure(campaign_audience, ev.id,
                                                      ev.status, CurrentTimestamp)
                       ELSE AudienceUpdateStatus(campaign_audience, ev.id, ev.status, ts)
                /\ IF rows # {}
                   THEN SetProc(p, [st EXCEPT
                            !.caCampaign = (CHOOSE r \in rows : TRUE).campaign_id,
                            !.pc = "stats_select"])
                   ELSE SetProc(p, [st EXCEPT !.pc = "status_mark"])
           ELSE /\ SetProc(p, [st EXCEPT !.pc = "status_mark"])
                /\ UNCHANGED campaign_audience
    /\ UNCHANGED <<envVars, queueVars, rcvVars, runtimeVars>>
    /\ UNCHANGED <<messages, campaigns, incoming_messages, webhook_events>>

\* CampaignAudience.updateCampaignStats: the SELECT COUNT(...)
StatsSelect(p) ==
    /\ proc[p].pc = "stats_select"
    /\ LET st == proc[p]
       IN  IF dbUp
           THEN SetProc(p, [st EXCEPT
                    !.stats = CampaignStats(campaign_audience, st.caCampaign),
                    !.pc = "stats_update"])
           ELSE SetProc(p, [st EXCEPT !.pc = "status_mark"])
    /\ UNCHANGED <<envVars, queueVars, rcvVars, runtimeVars, storeVars>>

\* CampaignAudience.updateCampaignStats: the UPDATE of campaigns
StatsUpdate(p) ==
    /\ proc[p].pc = "stats_update"
    /\ LET st == proc[p]
       IN  IF dbUp
           THEN /\ campaigns' = [campaigns EXCEPT ![st.caCampaign] = st.stats]
                /\ SetProc(p, [st EXCEPT !.pc = "status_mark_updated"])
           ELSE /\ SetProc(p, [st EXCEPT !.pc = "status_mark"])
                /\ UNCHANGED campaigns
    /\ UNCHANGED <<envVars, queueVars, rcvVars, runtimeVars>>
    /\ UNCHANGED <<messages, campaign_audience, incoming_messages, webhook_events>>

\* WebhookEvent.markAsProcessed(webhookEvent.id) at the end of
\* handleMessageStatus; an error goes to the catch block
StatusMark(p) ==
    /\ proc[p].pc \in {"status_mark", "status_mark_updated"}
    /\ LET st == proc[p]
       IN  IF dbUp
           THEN /\ webhook_events' = markAsProcessed(webhook_events, st.webhookEvent, NULL)
                /\ SetProc(p, StatusSucceeded(st, st.pc = "status_mark_updated"))
           ELSE /\ SetProc(p, [st EXCEPT !.pc = "mark_error",
                                         !.error = "store unavailable"])
                /\ UNCHANGED webhook_events
    /\ UNCHANGED <<envVars, queueVars, rcvVars, runtimeVars>>
    /\ UNCHANGED <<messages, campaign_audience, campaigns, incoming_messages>>


(***************************************************************************)
(* db-processor: handleIncomingMessage                                     *)
(***************************************************************************)
MessageFailed(st, msg) ==
    FinishEvent(st, EventResult("incoming_message", FALSE, CurrentEvent(st), FALSE,
                                FALSE, FALSE, msg))

MessageSucceeded(st, duplicate) ==
    FinishEvent(st, EventResult("incoming_message", TRUE, CurrentEvent(st), duplicate,
                                FALSE, FALSE, NULL))

\* a || b with the right operand dropped
OrLeft(a, b) == a

\* a || b
Or(a, b) == IF Truthy(a) THEN a ELSE b

\* obj?.member of an optional object, for a member that holds text
Member(obj, member) == IF obj = Absent THEN NULL ELSE obj[1][member]

\* obj?.member of an optional object, for a member that holds a number
NumberMember(obj, member) == IF obj = Absent THEN Absent ELSE obj[1][member]

\* ${value} in a template literal, for text and for a number
TemplateText(value) == IF value = NULL THEN "undefined" ELSE value
TemplateNumber(value) == IF value = Absent THEN "undefined" ELSE ToString(value[1])

Extracted(content, mediaUrl, mediaType, mediaSize, interactionData) ==
    [threw |-> FALSE, content |-> content, mediaUrl |-> mediaUrl,
     mediaType |-> mediaType, mediaSize |-> mediaSize,
     interactionData |-> interactionData]

\* TypeError: Cannot read properties of undefined
ExtractionThrew ==
    [threw |-> TRUE, content |-> "", mediaUrl |-> NULL, mediaType |-> NULL,
     mediaSize |-> Absent, interactionData |-> Absent]

ExtractedMedia(content, obj) ==
    Extracted(content, Member(obj, "id"), Member(obj, "mime_type"),
              NumberMember(obj, "file_size"), Absent)

ExtractedText(content) == Extracted(content, NULL, NULL, Absent, Absent)

\* the switch (type) of handleIncomingMessage
extractContent(message) ==
    LET type == message.type
        text == message.text
        image == message.image
        video == message.video
        audio == message.audio
        document == message.document
        location == message.location
        contacts == message.contacts
        interactive == message.interactive
        button == message.button
    IN  CASE type = "text" -> ExtractedText(Or(Member(text, "body"), ""))
          [] type = "image" ->
               ExtractedMedia(Or(Member(image, "caption"), "Image message"), image)
          [] type = "video" ->
               ExtractedMedia(Or(Member(video, "caption"), "Video message"), video)
          [] type = "audio" -> ExtractedMedia("Audio message", audio)
          [] type = "document" ->
               ExtractedMedia(Or(Member(document, "caption"),
                                 Or(Member(document, "filename"), "Document message")),
                              document)
          [] type = "location" ->
               ExtractedText(
                   "Location: " \o TemplateNumber(NumberMember(location, "latitude"))
                       \o ", " \o TemplateNumber(NumberMember(location, "longitude"))
                       \o (IF Truthy(Member(location, "name"))
                           THEN " (" \o location[1].name \o ")"
                           ELSE ""))
          [] type = "contacts" ->
               ExtractedText(
                   "Contact: " \o
                   Or(IF contacts = Absent \/ contacts[1] = <<>>
                      THEN NULL
                      ELSE contacts[1][1].formatted_name,
                      "Contact shared"))
          [] type = "interactive" ->
               IF Member(interactive, "type") = "button_reply"
               THEN IF interactive[1].button_reply = Absent
                    THEN ExtractionThrew
                    ELSE LET reply == interactive[1].button_reply[1]
                         IN  Extracted("Button: " \o TemplateText(reply.title),
                                       NULL, NULL, Absent,
                                       Present([type |-> "button_reply",
                                                button_id |-> reply.id,
                                                button_title |-> reply.title]))
               ELSE IF Member(interactive, "type") = "list_reply"
               THEN IF interactive[1].list_reply = Absent
                    THEN ExtractionThrew
                    ELSE LET reply == interactive[1].list_reply[1]
                         IN  Extracted("List: " \o TemplateText(reply.title),
                                       NULL, NULL, Absent,
                                       Present([type |-> "list_reply",
                                                list_id |-> reply.id,
                                                list_title |-> reply.title,
                                                list_description |-> reply.description]))
               ELSE ExtractedText("")
          [] type = "button" ->
               IF interactive = Absent
               THEN ExtractionThrew
               ELSE IF interactive[1].button_reply = Absent \/ button = Absent
               THEN ExtractionThrew
               ELSE Extracted("Button: "
                                 \o TemplateText(interactive[1].button_reply[1].title),
                              NULL, NULL, Absent,
                              Present([type |-> "button_reply",
                                       button_id |-> button[1].payload,
                                       button_title |-> button[1].text]))
          [] OTHER -> ExtractedText(type \o " message")

\* IncomingMessage.isDuplicate(whatsappMessageId), then the content switch
MsgIsDuplicate(p) ==
    /\ proc[p].pc = "msg_is_duplicate"
    /\ LET st == proc[p]
           ev == CurrentEvent(st)
       IN  IF ~dbUp
           THEN SetProc(p, MessageFailed(st, "store unavailable"))
           ELSE IF isDuplicate(incoming_messages, ev.id)
           THEN SetProc(p, MessageSucceeded(st, TRUE))
           ELSE IF extractContent(ev.message).threw
           THEN SetProc(p, MessageFailed(st, "Cannot read properties of undefined"))
           ELSE IF Truthy(ev.context)
           THEN SetProc(p, [st EXCEPT !.pc = "msg_find_context"])
           ELSE SetProc(p, [st EXCEPT !.pc = "msg_create"])
    /\ UNCHANGED <<envVars, queueVars, rcvVars, runtimeVars, storeVars>>

\* Message.findByWhatsAppId(context.id); an error is logged and dropped
MsgFindContext(p) ==
    /\ proc[p].pc = "msg_find_context"
    /\ LET st == proc[p]
           rows == RowsByWhatsAppId(messages, CurrentEvent(st).context)
       IN  IF dbUp /\ rows # {}
           THEN SetProc(p, [st EXCEPT
                    !.ctxCampaign = (CHOOSE r \in rows : TRUE).campaign_id,
                    !.ctxMessage = CurrentEvent(st).context,
                    !.pc = "msg_create"])
           ELSE SetProc(p, [st EXCEPT !.pc = "msg_create"])
    /\ UNCHANGED <<envVars, queueVars, rcvVars, runtimeVars, storeVars>>

\* IncomingMessage.create(...): the INSERT, refused by the UNIQUE constraint
\* on whatsapp_message_id when a row with that id exists
MsgCreate(p) ==
    /\ proc[p].pc = "msg_create"
    /\ LET st == proc[p]
           ev == CurrentEvent(st)
       IN  IF ~dbUp
           THEN /\ SetProc(p, MessageFailed(st, "store unavailable"))
                /\ UNCHANGED incoming_messages
           ELSE IF IncomingUniqueViolation(incoming_messages, ev.id)
           THEN /\ SetProc(p, MessageFailed(st, "duplicate key value"))
                /\ UNCHANGED incoming_messages
           ELSE /\ incoming_messages' = Append(incoming_messages,
                       IncomingRow(st.org, ev.id, ev.type,
                                   st.ctxMessage, st.ctxCampaign,
                                   extractContent(ev.message)))
                /\ SetProc(p, [st EXCEPT !.incomingMessage = Len(incoming_messages) + 1,
                                         !.pc = "msg_create_event"])
    /\ UNCHANGED <<envVars, queueVars, rcvVars, runtimeVars>>
    /\ UNCHANGED <<messages, campaign_audience, campaigns, webhook_events>>

\* WebhookEvent.create(...) of the received message
MsgCreateEvent(p) ==
    /\ proc[p].pc = "msg_create_event"
    /\ LET st == proc[p]
           ev == CurrentEvent(st)
       IN  IF dbUp
           THEN /\ webhook_events' = Append(webhook_events,
                       AuditRow(st.org, st.ctxCampaign, "message_received", ev.id,
                                "received"))
                /\ SetProc(p, [st EXCEPT !.webhookEvent = Len(webhook_events) + 1,
                                         !.pc = "msg_mark_incoming"])
           ELSE /\ SetProc(p, MessageFailed(st, "store unavailable"))
                /\ UNCHANGED webhook_events
    /\ UNCHANGED <<envVars, queueVars, rcvVars, runtimeVars>>
    /\ UNCHANGED <<messages, campaign_audience, campaigns, incoming_messages>>

\* IncomingMessage.markAsProcessed(incomingMessage.id)
MsgMarkIncoming(p) ==
    /\ proc[p].pc = "msg_mark_incoming"
    /\ LET st == proc[p]
       IN  IF dbUp
           THEN /\ incoming_messages' =
                       [incoming_messages EXCEPT ![st.incomingMessage].processed = TRUE]
                /\ SetProc(p, [st EXCEPT !.pc = "msg_mark_event"])
           ELSE /\ SetProc(p, [st EXCEPT !.pc = "mark_error",
                                         !.error = "store unavailable"])
                /\ UNCHANGED incoming_messages
    /\ UNCHANGED <<envVars, queueVars, rcvVars, runtimeVars>>
    /\ UNCHANGED <<messages, campaign_audience, campaigns, webhook_events>>

\* WebhookEvent.markAsProcessed(webhookEvent.id) at the end of
\* handleIncomingMessage
MsgMarkEvent(p) ==
    /\ proc[p].pc = "msg_mark_event"
    /\ LET st == proc[p]
       IN  IF dbUp
           THEN /\ webhook_events' = markAsProcessed(webhook_events, st.webhookEvent, NULL)
                /\ SetProc(p, MessageSucceeded(st, FALSE))
           ELSE /\ SetProc(p, [st EXCEPT !.pc = "mark_error",
                                         !.error = "store unavailable"])
                /\ UNCHANGED webhook_events
    /\ UNCHANGED <<envVars, queueVars, rcvVars, runtimeVars>>
    /\ UNCHANGED <<messages, campaign_audience, campaigns, incoming_messages>>

\* the catch block of handleMessageStatus / handleIncomingMessage:
\* WebhookEvent.markAsProcessed(webhookEvent.id, error.message), whose own
\* error is logged and dropped; then the error is rethrown
MarkError(p) ==
    /\ proc[p].pc = "mark_error"
    /\ LET st == proc[p]
       IN  /\ webhook_events' =
                  IF dbUp THEN markAsProcessed(webhook_events, st.webhookEvent, st.error)
                  ELSE webhook_events
           /\ IF CurrentEvent(st).kind = "status"
              THEN SetProc(p, StatusFailed(st, st.error))
              ELSE SetProc(p, MessageFailed(st, st.error))
    /\ UNCHANGED <<envVars, queueVars, rcvVars, runtimeVars>>
    /\ UNCHANGED <<messages, campaign_audience, campaigns, incoming_messages>>

(***************************************************************************)
(* Lambda runtime and SQS event source mapping                             *)
(***************************************************************************)
\* ids the handler's return value reports in batchItemFailures; a return value
\* without that field reports none
BatchItemFailures(response) ==
    IF "batchItemFailures" \in DOMAIN response
    THEN response.batchItemFailures
    ELSE {}

Batches(queue) ==
    {SelectSeq(queue, LAMBDA m : m.MessageId \in ids) :
        ids \in (SUBSET {queue[i].MessageId : i \in {j \in 1..Len(queue) : queue[j].visible}})
                \ {{}}}

\* exports.handler is invoked with batch as event.Records: the messages become
\* invisible and their receive counts go up
Invoke(p, batch) ==
    LET ids == {batch[i].MessageId : i \in 1..Len(batch)}
        received == [i \in 1..Len(batch) |->
                        [batch[i] EXCEPT !.receiveCount = @ + 1, !.visible = FALSE]]
    IN  /\ sqsQueue' = [i \in 1..Len(sqsQueue) |->
                           IF sqsQueue[i].MessageId \in ids
                           THEN [sqsQueue[i] EXCEPT !.receiveCount = @ + 1,
                                                    !.visible = FALSE]
                           ELSE sqsQueue[i]]
        /\ SetProc(p, BeginRecord([IdleProc EXCEPT !.batch = received, !.recIdx = 1]))

\* the event source mapping receives some of the visible messages as a batch
LambdaInvoke(p) ==
    /\ proc[p].pc = "idle"
    /\ \A q \in Procs : q < p => proc[q].pc # "idle"
    /\ \E batch \in Batches(sqsQueue) : Invoke(p, batch)
    /\ UNCHANGED <<envVars, nextSqsId, rcvVars, runtimeVars, storeVars>>

\* the event source mapping receives every message of the queue as one batch
LambdaInvokeAll(p) ==
    /\ proc[p].pc = "idle"
    /\ sqsQueue # <<>>
    /\ \A i \in 1..Len(sqsQueue) : sqsQueue[i].visible
    /\ Invoke(p, sqsQueue)
    /\ UNCHANGED <<envVars, nextSqsId, rcvVars, runtimeVars, storeVars>>

\* the handler returned: the runtime deletes the messages of the batch that
\* the return value does not report as failed; the reported ones become
\* visible again, or go to the dead-letter queue after MaxReceiveCount receives
LambdaComplete(p) ==
    /\ proc[p].pc = "returned"
    /\ LET st == proc[p]
           ids == {st.batch[i].MessageId : i \in 1..Len(st.batch)}
           failedIds == BatchItemFailures(st.response) \cap ids
           dead == {m \in {sqsQueue[i] : i \in 1..Len(sqsQueue)} :
                       m.MessageId \in failedIds /\ m.receiveCount >= MaxReceiveCount}
           deadIds == {m.MessageId : m \in dead}
           kept == SelectSeq(sqsQueue,
                       LAMBDA m : m.MessageId \notin ids
                                  \/ (m.MessageId \in failedIds /\ m.MessageId \notin deadIds))
       IN  /\ sqsQueue' = [i \in 1..Len(kept) |->
                              IF kept[i].MessageId \in failedIds
                              THEN [kept[i] EXCEPT !.visible = TRUE]
                              ELSE kept[i]]
           /\ sqsDeleted' = sqsDeleted \cup
                  {[MessageId |-> st.batch[i].MessageId, Body |-> st.batch[i].Body] :
                       i \in {j \in 1..Len(st.batch) : st.batch[j].MessageId \notin failedIds}}
           /\ sqsDeadLetters' = sqsDeadLetters \cup deadIds
           /\ SetProc(p, IdleProc)
    /\ UNCHANGED <<envVars, nextSqsId, rcvVars, storeVars>>

ProcessorStep(p) ==
    \/ LambdaInvoke(p)
    \/ ProcFindByAccount(p)
    \/ ProcFindByPhone(p)
    \/ StatusCreateEvent(p)
    \/ StatusUpdateMessage(p)
    \/ StatusUpdateAudience(p)
    \/ StatsSelect(p)
    \/ StatsUpdate(p)
    \/ StatusMark(p)
    \/ MsgIsDuplicate(p)
    \/ MsgFindContext(p)
    \/ MsgCreate(p)
    \/ MsgCreateEvent(p)
    \/ MsgMarkIncoming(p)
    \/ MsgMarkEvent(p)
    \/ MarkError(p)
    \/ LambdaComplete(p)


(***************************************************************************)
(* Specifications                                                          *)
(***************************************************************************)
InitStore ==
    /\ messages = InitMessages
    /\ campaign_audience = InitAudience
    /\ campaigns = [c \in {"camp1"} |-> CampaignStats(InitAudience, c)]
    /\ incoming_messages = <<>>
    /\ webhook_events = <<>>

InitProcessor ==
    /\ proc = [p \in Procs |-> IdleProc]
    /\ sqsDeleted = {}
    /\ sqsDeadLetters = {}

\* The receiver alone: requests of the provider against an empty queue
InitR ==
    /\ InitEnv /\ InitReceiver /\ InitStore /\ InitProcessor
    /\ sqsQueue = <<>>
    /\ nextSqsId = 1

NextR ==
    \/ ReceiverStep
    \/ StoreFails
    \/ StoreRecovers
    \/ QueueFails
    \/ QueueRecovers

SpecReceiver == InitR /\ [][NextR]_vars

\* The db-processor alone: the queue holds envelopes published earlier (or put
\* there by anyone who can write to the queue)
ProcessorBodies ==
    {EnvelopeBody(b) : b \in {"msg_a", "msg_reply", "msg_reply_unknown", "st_read",
                              "st_delivered", "unknown"}}
        \cup {MalformedBody}

RECURSIVE SeqsUpTo(_, _)
SeqsUpTo(S, n) ==
    IF n = 0 THEN {<<>>}
    ELSE LET shorter == SeqsUpTo(S, n - 1)
         IN  shorter \cup {Append(q, x) : q \in shorter, x \in S}

InitQueues ==
    {[i \in 1..Len(q) |-> SqsMessage(i, q[i])] :
        q \in SeqsUpTo(ProcessorBodies, MaxEnvelopes) \ {<<>>}}

InitP ==
    /\ InitEnv /\ InitReceiver /\ InitStore /\ InitProcessor
    /\ sqsQueue \in InitQueues
    /\ nextSqsId = Len(sqsQueue) + 1

NextP ==
    \/ \E p \in Procs : ProcessorStep(p)
    \/ StoreFails
    \/ StoreRecovers

SpecProcessor == InitP /\ [][NextP]_vars

\* One invocation of the db-processor: the whole queue is delivered as one
\* batch to one execution, and the store stays available
BatchBodies ==
    {EnvelopeBody(b) : b \in {"msg_a", "st_sent", "st_delivered", "st_read",
                              "st_failed", "st_norow", "by_phone", "unknown",
                              "org2_status", "org2_reply", "st_notime"}}
        \cup {MalformedBody}

BatchQueues ==
    {[i \in 1..Len(q) |-> SqsMessage(i, q[i])] :
        q \in SeqsUpTo(BatchBodies, MaxBatch) \ {<<>>}}

InitB ==
    /\ InitEnv /\ InitReceiver /\ InitStore /\ InitProcessor
    /\ sqsQueue \in BatchQueues
    /\ nextSqsId = Len(sqsQueue) + 1

NextB ==
    \/ LambdaInvokeAll(1)
    \/ ProcFindByAccount(1)
    \/ ProcFindByPhone(1)
    \/ StatusCreateEvent(1)
    \/ StatusUpdateMessage(1)
    \/ StatusUpdateAudience(1)
    \/ StatsSelect(1)
    \/ StatsUpdate(1)
    \/ StatusMark(1)
    \/ MsgIsDuplicate(1)
    \/ MsgFindContext(1)
    \/ MsgCreate(1)
    \/ MsgCreateEvent(1)
    \/ MsgMarkIncoming(1)
    \/ MsgMarkEvent(1)
    \/ LambdaComplete(1)

SpecBatch == InitB /\ [][NextB]_vars

(***************************************************************************)
(* Single-Lambda handler (src/index.js): receives and reconciles in one    *)
(* execution; its request, organization and response are held in the       *)
(* receiver's variables                                                     *)
(***************************************************************************)
NoOrgInfo == [found |-> FALSE, businessAccountId |-> NULL, phoneNumberId |-> NULL]

\* Organization.extractOrganizationFromWebhook: the first entry's id when it
\* has one, else the phone number id of its first change, never both
extractOrganizationFromWebhook(webhookPayload) ==
    IF Len(webhookPayload) > 0
    THEN IF Truthy(webhookPayload[1].id)
         THEN [found |-> TRUE, businessAccountId |-> webhookPayload[1].id,
               phoneNumberId |-> NULL]
         ELSE IF Truthy(FirstPhoneNumberId(webhookPayload))
         THEN [found |-> TRUE, businessAccountId |-> NULL,
               phoneNumberId |-> FirstPhoneNumberId(webhookPayload)]
         ELSE NoOrgInfo
    ELSE NoOrgInfo

\* organization.getWebhookSecret(), DEFAULT_WEBHOOK_SECRET not set
getWebhookSecret(org) ==
    IF Truthy(org.whatsapp_app_secret) THEN org.whatsapp_app_secret ELSE "default_secret"

\* WebhookEvent.create({organizationId: organization.id, ...}) of
\* handleMessageStatus and handleIncomingMessage, one row per event
RECURSIVE SingleAuditRows(_, _)
SingleAuditRows(org, events) ==
    IF events = <<>> THEN <<>>
    ELSE <<IF Head(events).kind = "status"
           THEN AuditRow(org, NULL, "message_status", Head(events).id, Head(events).status)
           ELSE AuditRow(org, NULL, "message_received", Head(events).id, "received")>>
             \o SingleAuditRows(org, Tail(events))

\* handleWebhook(event): the lookup is made only when the extracted info has
\* both a business account id and a phone number id; Organization.
\* findByWhatsAppBusinessAccountId rethrows a query error, which the catch
\* answers 500
handleWebhook(req) ==
    /\ rcvPc = "idle"
    /\ rcvReq' = req
    /\ rcvPc' = "idle"
    /\ UNCHANGED <<rcvSqsResult, rcvSends>>
    /\ IF ~JsonParses(req.body)
       THEN /\ rcvOrg' = NULL
            /\ rcvResp' = Response(500, "Failed to process webhook", 0)
            /\ UNCHANGED webhook_events
       ELSE LET body == PayloadOf(req.body)
                orgInfo == extractOrganizationFromWebhook(body)
                lookup == /\ orgInfo.found
                          /\ Truthy(orgInfo.businessAccountId)
                          /\ Truthy(orgInfo.phoneNumberId)
                organization ==
                    IF lookup
                    THEN FirstRowId(ActiveOrgsBy("whatsapp_business_account_id",
                                                 orgInfo.businessAccountId))
                    ELSE NULL
            IN  IF lookup /\ ~dbUp
                THEN /\ rcvOrg' = NULL
                     /\ rcvResp' = Response(500, "Failed to process webhook", 0)
                     /\ UNCHANGED webhook_events
                ELSE IF organization = NULL
                THEN /\ rcvOrg' = NULL
                     /\ rcvResp' = Response(403, "Organization not found or not configured", 0)
                     /\ UNCHANGED webhook_events
                ELSE IF /\ getWebhookSecret(OrgById(organization)) # "default_secret"
                        /\ ~verifyWebhookSignature(req.body, req.signature,
                                                   getWebhookSecret(OrgById(organization)))
                THEN /\ rcvOrg' = organization
                     /\ rcvResp' = Response(403, "Invalid signature", 0)
                     /\ UNCHANGED webhook_events
                ELSE /\ rcvOrg' = organization
                     /\ rcvResp' = Response(200, "success", 0)
                     /\ webhook_events' =
                            webhook_events \o SingleAuditRows(organization, EntryEvents(body))
    /\ UNCHANGED <<envVars, queueVars, runtimeVars, proc>>
    /\ UNCHANGED <<messages, campaign_audience, campaigns, incoming_messages>>

NextSingle ==
    \/ \E req \in DeliveryRequests : handleWebhook(req)
    \/ StoreFails
    \/ StoreRecovers

SpecSingle == InitR /\ [][NextSingle]_vars

\* One envelope with several events, changes or entries, handled by one
\* execution of the db-processor while the store may fail and recover
EnvelopeBodies ==
    {EnvelopeBody(b) : b \in {"st_two", "mixed", "by_phone", "msg_reply",
                              "two_entries", "two_entries_unknown"}}

InitE ==
    /\ InitEnv /\ InitReceiver /\ InitStore /\ InitProcessor
    /\ sqsQueue \in {<<SqsMessage(1, b)>> : b \in EnvelopeBodies}
    /\ nextSqsId = 2

NextE ==
    \/ ProcessorStep(1)
    \/ StoreFails
    \/ StoreRecovers

SpecEnvelope == InitE /\ [][NextE]_vars

\* The pipeline: the receiver answers requests and publishes while one
\* execution of the db-processor reconciles what was published; store and
\* queue stay available
PipelineRequests ==
    {[httpMethod |-> "GET", mode |-> "subscribe", token |-> t, challenge |-> "ch1",
      body |-> NULL, signature |-> NoSignature] : t \in {"tok1", "tok9"}}
        \cup {[httpMethod |-> "POST", mode |-> NULL, token |-> NULL, challenge |-> NULL,
                body |-> b, signature |-> NoSignature] :
                   b \in {"org2_status", "org2_reply", "org2_msg", "st_read", "malformed"}}
        \cup {[httpMethod |-> "POST", mode |-> NULL, token |-> NULL, challenge |-> NULL,
                body |-> "by_phone",
                signature |-> SignatureHeader(TRUE, HmacSha256Hex("by_phone", "sec1"))]}

NextPipeline ==
    \/ \E req \in PipelineRequests : RcvReceive(req)
    \/ RcvVerifyToken
    \/ RcvFindByAccount
    \/ RcvFindByPhone
    \/ RcvSendToSQS
    \/ RcvRespond
    \/ NextB

SpecPipeline == InitR /\ [][NextPipeline]_vars

\* One message of every type and shape: the queue holds one envelope with one
\* incoming message, handled by one execution while the store is available
ContentQueues ==
    {<<SqsMessage(1, EnvelopeBody(Stringify(m)))>> : m \in ContentMessages}

InitC ==
    /\ InitEnv /\ InitReceiver /\ InitStore /\ InitProcessor
    /\ sqsQueue \in ContentQueues
    /\ nextSqsId = Len(sqsQueue) + 1

NextC ==
    \/ LambdaInvokeAll(1)
    \/ ProcFindByAccount(1)
    \/ MsgIsDuplicate(1)
    \/ MsgCreate(1)
    \/ MsgCreateEvent(1)
    \/ MsgMarkIncoming(1)
    \/ MsgMarkEvent(1)
    \/ LambdaComplete(1)

SpecContent == InitC /\ [][NextC]_vars

(***************************************************************************)
(* Properties of the receiver                                              *)
(***************************************************************************)
StoreUntouched ==
    /\ messages = InitMessages
    /\ campaign_audience = InitAudience
    /\ incoming_messages = <<>>
    /\ webhook_events = <<>>
    /\ organizations = InitOrganizations

\* the active tenants a delivery's routing identifiers name: by the account id
\* of its first entry, else by the phone number id of its first change
RoutedTenants(bodyText) ==
    LET payload == PayloadOf(bodyText)
        byAccount == {o \in organizations :
                         /\ o.status = "active"
                         /\ Truthy(FirstEntryId(payload))
                         /\ o.whatsapp_business_account_id = FirstEntryId(payload)}
        byPhone == {o \in organizations :
                       /\ o.status = "active"
                       /\ Truthy(FirstPhoneNumberId(payload))
                       /\ o.whatsapp_phone_number_id = FirstPhoneNumberId(payload)}
    IN  IF byAccount # {} THEN byAccount ELSE byPhone

SignatureMatches(req, secret) ==
    req.signature.present /\ req.signature.hex = HmacSha256Hex(req.body, secret)

AuthenticationFails(req) ==
    \/ RoutedTenants(req.body) = {}
    \/ \E o \in RoutedTenants(req.body) :
           Truthy(o.whatsapp_app_secret) /\ ~SignatureMatches(req, o.whatsapp_app_secret)

IsDelivery(req) == req.httpMethod = "POST" /\ JsonParses(req.body)

\* C5: a delivery whose routing identifiers match no active tenant, or whose
\* tenant has a signing secret that the presented signature does not verify
\* against, never reaches the publish step, publishes nothing, leaves the store
\* as it was, and is answered 403.
C5_AuthFailureRejected ==
    (IsDelivery(rcvReq) /\ AuthenticationFails(rcvReq)) =>
        /\ rcvPc \notin {"send_sqs", "sent"}
        /\ rcvSends = 0
        /\ rcvSqsResult = 0
        /\ \A i \in 1..Len(sqsQueue) : sqsQueue[i].MessageId < nextSqsId
        /\ StoreUntouched
        /\ rcvPc = "idle" => rcvResp.statusCode = 403

\* a delivery for a tenant with a secret, signed with another secret, has been
\* answered
C5_Witness ==
    /\ rcvPc = "idle"
    /\ IsDelivery(rcvReq)
    /\ \E o \in RoutedTenants(rcvReq.body) : Truthy(o.whatsapp_app_secret)
    /\ rcvReq.signature.present
    /\ rcvReq.signature.hex = HmacSha256Hex(rcvReq.body, "sec9")
    /\ rcvResp.statusCode = 403
    /\ Len(sqsQueue) = 1

TokenOfActiveTenant(token) ==
    /\ Truthy(token)
    /\ \E o \in organizations :
           o.status = "active" /\ o.whatsapp_webhook_verify_token = token

ValidVerification(req) == req.mode = "subscribe" /\ TokenOfActiveTenant(req.token)

PublishedBy(mid) == {i \in 1..Len(sqsQueue) : sqsQueue[i].MessageId = mid}

\* C7: a delivery is answered 200 only after the queue acknowledged the
\* envelope, the answer carries the acknowledgement's message id, the queue
\* holds exactly one envelope with that id and it wraps the request's payload,
\* one request publishes at most one envelope, and a publish that fails is
\* answered 5xx.
C7_AckBeforeSuccess ==
    /\ [](/\ rcvSends <= 1
          /\ rcvSends = 1 <=> rcvSqsResult # 0
          /\ (rcvPc = "idle" /\ rcvReq.httpMethod = "POST") =>
                 /\ rcvResp.statusCode = 200 <=> rcvSends = 1
                 /\ rcvResp.statusCode = 200 =>
                        /\ rcvResp.messageId = rcvSqsResult
                        /\ Cardinality(PublishedBy(rcvResp.messageId)) = 1
                        /\ \A i \in PublishedBy(rcvResp.messageId) :
                               sqsQueue[i].Body = EnvelopeBody(rcvReq.body))
    /\ [][(rcvPc = "send_sqs" /\ rcvPc' # "send_sqs" /\ ~sqsUp) =>
               /\ rcvPc' = "idle"
               /\ rcvResp'.statusCode >= 500
               /\ sqsQueue' = sqsQueue]_vars

\* an accepted delivery has been answered after its envelope was queued
C7_Witness ==
    /\ rcvPc = "idle"
    /\ rcvReq.httpMethod = "POST"
    /\ rcvResp.statusCode = 200
    /\ rcvResp.messageId = 2
    /\ Len(sqsQueue) = 2


(***************************************************************************)
(* Properties of the db-processor                                          *)
(***************************************************************************)
IncomingRowsOf(id) ==
    {i \in 1..Len(incoming_messages) : incoming_messages[i].whatsapp_message_id = id}

SeqElems(seq) == {seq[i] : i \in 1..Len(seq)}

\* results of events the executions under way have produced so far
EventResultsOf(p) ==
    SeqElems(proc[p].evResults)
        \cup UNION {SeqElems(r.processingResults) : r \in SeqElems(proc[p].results)}

IncomingIds == {"in1", "in3"}

\* C1: however often and however concurrently an inbound message is delivered
\* and processed, the store never holds more than one incoming_messages row
\* with its provider message id, and holds exactly one as soon as any
\* processing of it has reported success.
C1_OneIncomingRow ==
    \A id \in IncomingIds :
        /\ Cardinality(IncomingRowsOf(id)) <= 1
        /\ (\E p \in Procs : \E r \in EventResultsOf(p) :
                r.type = "incoming_message" /\ r.id = id /\ r.success)
             => Cardinality(IncomingRowsOf(id)) = 1

\* two executions raced on the same inbound message: one inserted it, the
\* other passed the duplicate check and was refused by the store
C1_Witness ==
    /\ \E r \in EventResultsOf(1) :
           r.id = "in1" /\ r.success /\ ~r.duplicate
    /\ \E r \in EventResultsOf(2) :
           r.id = "in1" /\ ~r.success /\ r.error = "duplicate key value"
    /\ Cardinality(IncomingRowsOf("in1")) = 1

FailedIds(results) == {r.messageId : r \in {x \in SeqElems(results) : ~x.success}}

\* C2: when a batch completes, the handler's return value reports as failed
\* exactly the envelopes whose processing failed (so that the runtime
\* redelivers those and only those).
C2_ReportsFailedEnvelopes ==
    \A p \in Procs :
        proc[p].pc = "returned" =>
            BatchItemFailures(proc[p].response) = FailedIds(proc[p].results)

\* an envelope that is malformed or whose routing identifiers resolve to no
\* active tenant
Offending(m) ==
    \/ ~m.Body.wellFormed
    \/ ~JsonParses(m.Body.webhookPayload)
    \/ RoutedTenants(m.Body.webhookPayload) = {}

StageTimestamp(row, status) ==
    CASE status = "sent" -> row.sent_at
      [] status = "delivered" -> row.delivered_at
      [] status = "read" -> row.read_at
      [] OTHER -> 0

\* the store shows the event as applied
EventApplied(ev, receivedAt) ==
    IF ev.kind = "status"
    THEN /\ \E i \in 1..Len(webhook_events) :
                /\ webhook_events[i].whatsapp_message_id = ev.id
                /\ webhook_events[i].status = ev.status
                /\ webhook_events[i].processed
                /\ webhook_events[i].error_message = NULL
         /\ \A r \in RowsByWhatsAppId(messages, ev.id) :
                ev.status \in {"sent", "delivered", "read"} =>
                    StageTimestamp(r, ev.status) = EventTimestamp(ev, receivedAt)
         /\ \A r \in RowsByWhatsAppId(campaign_audience, ev.id) :
                ev.status \in {"sent", "delivered", "read"} =>
                    StageTimestamp(r, ev.status) = EventTimestamp(ev, receivedAt)
    ELSE /\ \E i \in IncomingRowsOf(ev.id) : incoming_messages[i].processed
         /\ \E i \in 1..Len(webhook_events) :
                /\ webhook_events[i].whatsapp_message_id = ev.id
                /\ webhook_events[i].event_type = "message_received"
                /\ webhook_events[i].processed

EnvelopeEvents(m) == EntryEvents(PayloadOf(m.Body.webhookPayload))

\* C3: when a batch completes, every envelope has one result in batch order,
\* the results reported as failed are exactly those of the malformed envelopes
\* and of the envelopes resolving to no tenant, and every event of every other
\* envelope has been reconciled into the store.
C3_OffendingEnvelopeIsolated ==
    \A p \in Procs :
        proc[p].pc = "returned" =>
            LET st == proc[p]
            IN  /\ Len(st.results) = Len(st.batch)
                /\ \A i \in 1..Len(st.batch) :
                       /\ st.results[i].messageId = st.batch[i].MessageId
                       /\ st.results[i].success <=> ~Offending(st.batch[i])
                       /\ ~Offending(st.batch[i]) =>
                              /\ Len(st.results[i].processingResults)
                                     = Len(EnvelopeEvents(st.batch[i]))
                              /\ \A r \in SeqElems(st.results[i].processingResults) :
                                     r.success
                              /\ \A ev \in SeqElems(EnvelopeEvents(st.batch[i])) :
                                     EventApplied(ev, st.batch[i].Body.receivedAt)

\* a batch of three whose middle envelope is malformed and whose last envelope
\* names no tenant has completed, the first envelope reconciled
C3_Witness ==
    /\ proc[1].pc = "returned"
    /\ Len(proc[1].batch) = 3
    /\ proc[1].batch[1].Body = EnvelopeBody("st_delivered")
    /\ ~proc[1].batch[2].Body.wellFormed
    /\ proc[1].batch[3].Body = EnvelopeBody("msg_a")
    /\ proc[1].results[1].success
    /\ ~proc[1].results[2].success
    /\ proc[1].results[3].success
    /\ Cardinality(IncomingRowsOf("in1")) = 1

\* C4: an envelope the runtime has removed from the queue, other than an
\* offending one, has had every one of its events applied to the store (an
\* envelope that could not be applied because the store was unavailable stays
\* queued for redelivery).
C4_NeverDroppedUnapplied ==
    \A d \in sqsDeleted :
        ~Offending(d) =>
            \A ev \in SeqElems(EnvelopeEvents(d)) : EventApplied(ev, d.Body.receivedAt)

AllIdle == \A p \in Procs : proc[p].pc = "idle"

\* statuses of the audit records of id that were processed without error, in
\* the order they were recorded
AppliedStatuses(id) ==
    LET applied == SelectSeq(webhook_events,
                       LAMBDA e : /\ e.event_type = "message_status"
                                  /\ e.whatsapp_message_id = id
                                  /\ e.processed /\ e.error_message = NULL)
    IN  [i \in 1..Len(applied) |-> applied[i].status]

\* C8: once a 'read' event and then a 'delivered' event of the same message
\* have been reconciled, the ledger row holds both timestamps and its status
\* is 'read'.
C8_ReadThenDelivered ==
    (AllIdle /\ AppliedStatuses("wamid1") = <<"read", "delivered">>) =>
        \A r \in RowsByWhatsAppId(messages, "wamid1") :
            /\ r.read_at # 0
            /\ r.delivered_at # 0
            /\ r.message_status = "read"

\* the event execution p is reconciling was already applied before
IsReplay(p) ==
    LET ev == CurrentEvent(proc[p])
    IN  \E i \in 1..(proc[p].webhookEvent - 1) :
            /\ webhook_events[i].event_type = "message_status"
            /\ webhook_events[i].whatsapp_message_id = ev.id
            /\ webhook_events[i].status = ev.status
            /\ webhook_events[i].processed
            /\ webhook_events[i].error_message = NULL

\* C9: reconciling a status event that was already applied leaves the ledger
\* as it is.
C9_ReplayChangesNothing ==
    [][\A p \in Procs :
          (/\ proc[p].pc = "status_update_message"
           /\ proc'[p].pc # "status_update_message"
           /\ IsReplay(p)) => messages' = messages]_vars

\* C10: the update of the ledger for a status event sets the status of the
\* row with the event's message id to the event's status, whatever the row's
\* status was, in the messages table and in campaign_audience.
C10_LastWriteWins ==
    [][\A p \in Procs :
          LET ev == CurrentEvent(proc[p])
          IN  /\ (/\ proc[p].pc = "status_update_message"
                  /\ proc'[p].pc # "status_update_message"
                  /\ dbUp) =>
                     /\ \A r \in RowsByWhatsAppId(messages', ev.id) :
                            r.message_status = ev.status
                     /\ RowsByWhatsAppId(messages, ev.id) # {}
                            => proc'[p].messageUpdated
              /\ (/\ proc[p].pc = "status_update_audience"
                  /\ proc'[p].pc # "status_update_audience"
                  /\ dbUp) =>
                     \A r \in RowsByWhatsAppId(campaign_audience', ev.id) :
                         r.message_status = ev.status]_vars

\* a 'sent' event has just been applied to a row that had been read: the row
\* is back at 'sent'
C10_Witness ==
    /\ proc[1].pc = "status_update_audience"
    /\ CurrentEvent(proc[1]).status = "sent"
    /\ \E r \in RowsByWhatsAppId(messages, "wamid1") :
           r.read_at # 0 /\ r.message_status = "sent"

(***************************************************************************)
(* Properties of the status lifecycle                                      *)
(***************************************************************************)
\* C11: a ledger row whose status is 'failed' keeps that status in every
\* later state, whatever status event is reconciled against it.
C11_FailedIsTerminal ==
    [][\A r \in messages :
          r.message_status = "failed" =>
              \A r2 \in RowsByWhatsAppId(messages', r.whatsapp_message_id) :
                  r2.message_status = "failed"]_vars

\* `${err.code}: ${err.title} - ${err.message || ""}`
ErrorText(err) ==
    err.code \o ": " \o err.title \o " - "
        \o (IF Truthy(err.message) THEN err.message ELSE "")

\* errors.map(...).join("; ")
RECURSIVE FailureReasonOf(_)
FailureReasonOf(errors) ==
    IF Len(errors) = 0 THEN ""
    ELSE IF Len(errors) = 1 THEN ErrorText(errors[1])
    ELSE ErrorText(errors[1]) \o "; " \o FailureReasonOf(Tail(errors))

\* the 'failed' event of id has been reconciled without error
FailedReconciled(id) ==
    \E i \in 1..Len(webhook_events) :
        /\ webhook_events[i].whatsapp_message_id = id
        /\ webhook_events[i].status = "failed"
        /\ webhook_events[i].processed
        /\ webhook_events[i].error_message = NULL

\* C12: once a 'failed' event carrying error entries has been reconciled, the
\* failure reason of the row in the messages table and of the row in
\* campaign_audience is the text of all its error entries, each as
\* 'code: title - message', joined with semicolons.
C12_FailureReasonConcatenated ==
    LET ev == EntryEvents(PayloadOf("st_failed"))[1]
    IN  FailedReconciled(ev.id) =>
            /\ \A r \in RowsByWhatsAppId(messages, ev.id) :
                   r.failure_reason = FailureReasonOf(ev.errors)
            /\ \A r \in RowsByWhatsAppId(campaign_audience, ev.id) :
                   r.failure_reason = FailureReasonOf(ev.errors)

\* results of status events of id that the executions have produced
StatusResultsOf(id) ==
    UNION {{r \in EventResultsOf(p) : r.type = "status_update" /\ r.id = id} :
              p \in Procs}

\* C13: reconciling a status event whose message id has no row in the
\* messages table, or none in campaign_audience, leaves that table (and the
\* campaign counters) as it is, creates no row, and the event still succeeds
\* with its audit record marked processed without error text.
C13_MissingRowIsNoOp ==
    /\ [](/\ RowsByWhatsAppId(messages, "wamid9") = {}
          /\ RowsByWhatsAppId(campaign_audience, "wamid9") = {}
          /\ RowsByWhatsAppId(campaign_audience, "wamid3") = {}
          /\ \A id \in {"wamid9", "wamid3"} : \A r \in StatusResultsOf(id) :
                 /\ r.success /\ r.error = NULL
                 /\ ~r.campaignAudienceUpdated
                 /\ r.messageUpdated <=> id = "wamid3"
                 /\ \E i \in 1..Len(webhook_events) :
                        /\ webhook_events[i].whatsapp_message_id = id
                        /\ webhook_events[i].status = r.status
                        /\ webhook_events[i].processed
                        /\ webhook_events[i].error_message = NULL)
    /\ [][\A p \in Procs :
             LET ev == CurrentEvent(proc[p])
             IN  /\ (/\ proc[p].pc = "status_update_message"
                     /\ proc'[p].pc # "status_update_message"
                     /\ RowsByWhatsAppId(messages, ev.id) = {})
                        => messages' = messages /\ proc'[p].pc = "status_update_audience"
                 /\ (/\ proc[p].pc = "status_update_audience"
                     /\ proc'[p].pc # "status_update_audience"
                     /\ RowsByWhatsAppId(campaign_audience, ev.id) = {})
                        => /\ campaign_audience' = campaign_audience
                           /\ campaigns' = campaigns
                           /\ proc'[p].pc = "status_mark"]_vars

\* a status event for a message id unknown to both tables, and one for an id
\* known to the messages table only, have both been reconciled
C13_Witness ==
    /\ \E r \in StatusResultsOf("wamid9") : r.success /\ ~r.messageUpdated
    /\ \E r \in StatusResultsOf("wamid3") : r.success /\ r.messageUpdated
    /\ \E r \in RowsByWhatsAppId(messages, "wamid3") : r.message_status = "read"

\* rows of campaign c that are in status st
AudienceIn(c, st) ==
    {r \in campaign_audience : r.campaign_id = c /\ r.message_status = st}

\* no execution is between the update of an audience row and the recount
NoRecountPending == \A p \in Procs : proc[p].pc \notin {"stats_select", "stats_update"}

\* C14: whenever every status reconciliation begun so far has run to its
\* end, each campaign's counters equal the present number of its audience
\* rows, in all and in each of the states sent, delivered, read and failed,
\* however often an event was replayed.
C14_CountersAreFreshCounts ==
    NoRecountPending =>
        \A c \in DOMAIN campaigns :
            /\ campaigns[c].total_targeted_audience
                   = Cardinality({r \in campaign_audience : r.campaign_id = c})
            /\ campaigns[c].total_sent = Cardinality(AudienceIn(c, "sent"))
            /\ campaigns[c].total_delivered = Cardinality(AudienceIn(c, "delivered"))
            /\ campaigns[c].total_read = Cardinality(AudienceIn(c, "read"))
            /\ campaigns[c].total_failed = Cardinality(AudienceIn(c, "failed"))

\* the 'delivered' event of one message was reconciled three times and the
\* campaign counts one delivered row
C14_Witness ==
    /\ AllIdle
    /\ AppliedStatuses("wamid1") = <<"delivered", "delivered", "delivered">>
    /\ campaigns["camp1"].total_delivered = 1
    /\ campaigns["camp1"].total_sent = 0

(***************************************************************************)
(* Properties of the audit log                                             *)
(***************************************************************************)
\* positions of the handlers at which a write to a ledger or to
\* incoming_messages is attempted
ReconciliationWrites == {"status_update_message", "status_update_audience", "msg_create"}

\* C15: whenever an execution attempts a reconciliation write for an event
\* (the update of a ledger row, the insert of an incoming message), the audit
\* record of that event has been created before.
C15_AuditRecordFirst ==
    [][\A p \in Procs :
          (proc[p].pc \in ReconciliationWrites /\ proc'[p].pc # proc[p].pc) =>
              /\ proc[p].webhookEvent \in 1..Len(webhook_events)
              /\ webhook_events[proc[p].webhookEvent].whatsapp_message_id
                     = CurrentEvent(proc[p]).id]_vars

\* the status events the payloads carry
AllStatusEvents ==
    UNION {{ev \in SeqElems(EntryEvents(PayloadOf(pid))) : ev.kind = "status"} :
              pid \in PayloadIds}

\* the ledgers show the stage the event reports
StageRecorded(ev) ==
    \A r \in RowsByWhatsAppId(messages, ev.id) \cup RowsByWhatsAppId(campaign_audience, ev.id) :
        (ev.status \in {"sent", "delivered", "read"} /\ ev.timestamp # 0) =>
            StageTimestamp(r, ev.status) = ev.timestamp

\* C16: an audit record of a status event that is marked processed with no
\* error text belongs to an attempt in which no ledger update raised an
\* error: the ledgers show the stage the event reports.
C16_FailedAttemptCarriesError ==
    \A i \in 1..Len(webhook_events) :
        LET a == webhook_events[i]
        IN  (a.event_type = "message_status" /\ a.processed /\ a.error_message = NULL) =>
                \A ev \in AllStatusEvents :
                    (ev.id = a.whatsapp_message_id /\ ev.status = a.status) =>
                        StageRecorded(ev)

(***************************************************************************)
(* Properties of the incoming-message path                                 *)
(***************************************************************************)
\* C17: handling an incoming message whose message id already has a row in
\* incoming_messages ends at the duplicate check: the event's result is a
\* success flagged duplicate with no error, and incoming_messages, the audit
\* log, both ledgers and the campaign counters are left as they were.
C17_DuplicateIsNoOp ==
    [][\A p \in Procs :
          (/\ proc[p].pc = "msg_is_duplicate"
           /\ proc'[p] # proc[p]
           /\ dbUp
           /\ IncomingRowsOf(CurrentEvent(proc[p]).id) # {}) =>
              /\ UNCHANGED storeVars
              /\ \E r \in SeqElems(proc'[p].evResults) :
                     /\ proc'[p].evResults = Append(proc[p].evResults, r)
                     /\ r.type = "incoming_message"
                     /\ r.id = CurrentEvent(proc[p]).id
                     /\ r.success /\ r.duplicate /\ r.error = NULL]_vars

\* the same incoming message was handled twice: stored the first time,
\* answered as a duplicate the second
C17_Witness ==
    /\ \E r \in EventResultsOf(1) : r.id = "in1" /\ r.success /\ r.duplicate
    /\ Cardinality(IncomingRowsOf("in1")) = 1
    /\ Len(webhook_events) = 1
    /\ proc[1].pc = "returned"

\* C18: when two executions handle the same incoming message at the same
\* time, the one whose insert the store refuses ends as a duplicate no-op:
\* apart from an unavailable store, no incoming-message event is reported as
\* failed.
C18_RaceLoserIsDuplicate ==
    \A p \in Procs : \A r \in EventResultsOf(p) :
        (r.type = "incoming_message" /\ r.error # "store unavailable") =>
            r.success /\ r.error = NULL

\* audit rows of a received message
AuditRowsOf(id) ==
    {i \in 1..Len(webhook_events) :
        /\ webhook_events[i].event_type = "message_received"
        /\ webhook_events[i].whatsapp_message_id = id}

\* the message was handled to the end by some execution
HandledToCompletion(id) ==
    \E p \in Procs : \E r \in EventResultsOf(p) :
        r.type = "incoming_message" /\ r.id = id /\ r.success /\ ~r.duplicate

\* C19: a received message is handled in a fixed order: its record is
\* persisted, then its audit row with the same message id and tenant is
\* created, then the record and after it the audit row are marked processed;
\* once the handling has completed there is exactly one record and one audit
\* row of the message, both processed.
C19_IncomingOrder ==
    /\ [](\A id \in IncomingIds :
             HandledToCompletion(id) =>
                 /\ Cardinality(IncomingRowsOf(id)) = 1
                 /\ Cardinality(AuditRowsOf(id)) = 1
                 /\ \A j \in IncomingRowsOf(id) : \A i \in AuditRowsOf(id) :
                        /\ incoming_messages[j].processed
                        /\ webhook_events[i].processed
                        /\ webhook_events[i].error_message = NULL
                        /\ webhook_events[i].organization_id =
                               incoming_messages[j].organization_id)
    /\ [][/\ \A i \in 1..Len(webhook_events') :
                (/\ i > Len(webhook_events)
                 /\ webhook_events'[i].event_type = "message_received") =>
                    \E j \in IncomingRowsOf(webhook_events'[i].whatsapp_message_id) :
                        incoming_messages[j].organization_id =
                            webhook_events'[i].organization_id
          /\ \A j \in 1..Len(incoming_messages) :
                (~incoming_messages[j].processed /\ incoming_messages'[j].processed) =>
                    \E i \in AuditRowsOf(incoming_messages[j].whatsapp_message_id) :
                        /\ webhook_events[i].organization_id =
                               incoming_messages[j].organization_id
                        /\ ~webhook_events[i].processed
          /\ \A i \in 1..Len(webhook_events) :
                (/\ webhook_events[i].event_type = "message_received"
                 /\ ~webhook_events[i].processed
                 /\ webhook_events'[i].processed
                 /\ webhook_events'[i].error_message = NULL) =>
                    \E j \in IncomingRowsOf(webhook_events[i].whatsapp_message_id) :
                        incoming_messages[j].processed]_vars

C19_Witness ==
    /\ HandledToCompletion("in1")
    /\ \E j \in IncomingRowsOf("in1") : incoming_messages[j].processed
    /\ \E i \in AuditRowsOf("in1") : webhook_events[i].processed
    /\ proc[1].pc = "returned"

\* the member of a message that carries the object of its type
TypeObject(message) ==
    IF message.type \in {"text", "image", "video", "audio", "document", "location",
                         "contacts", "interactive"}
    THEN message[message.type]
    ELSE Absent

HasText(s) == s # NULL /\ s # ""

\* the nine kinds of message the mapping of content is documented for
IsDocumentedType(message) ==
    \/ message.type \in {"text", "image", "video", "audio", "document", "location",
                         "contacts"}
    \/ /\ message.type = "interactive"
       /\ message.interactive # Absent
       /\ message.interactive[1].type \in {"button_reply", "list_reply"}

MediaPlaceholder(type) ==
    CASE type = "image" -> "Image message"
      [] type = "video" -> "Video message"
      [] type = "audio" -> "Audio message"
      [] type = "document" -> "Document message"

\* "Media Messages (Image, Video, Audio, Document)": the caption, or the
\* placeholder of the type when there is no caption
CaptionOrDefault(message) ==
    LET obj == TypeObject(message)
    IN  IF obj # Absent /\ HasText(obj[1].caption)
        THEN obj[1].caption
        ELSE MediaPlaceholder(message.type)

\* the content the handler derives for the four media types: an audio
\* message always gets its placeholder, and a document without a caption
\* gets its file name before the placeholder
CaptionFilenameOrDefault(message) ==
    LET obj == TypeObject(message)
    IN  IF message.type = "audio" THEN MediaPlaceholder("audio")
        ELSE IF obj # Absent /\ HasText(obj[1].caption) THEN obj[1].caption
        ELSE IF message.type = "document" /\ obj # Absent /\ HasText(obj[1].filename)
        THEN obj[1].filename
        ELSE MediaPlaceholder(message.type)

MappedFields(content, mediaUrl, mediaType, mediaSize, interactiveType, interactiveData) ==
    [content |-> content, media_url |-> mediaUrl, media_type |-> mediaType,
     media_size |-> mediaSize, interactive_type |-> interactiveType,
     interactive_data |-> interactiveData]

\* "Content Extraction by Message Type", with the content of a media message
\* given by mediaContent
ContentMapping(message, mediaContent) ==
    LET obj == TypeObject(message)
        plain(content) == MappedFields(content, NULL, NULL, Absent, NULL, Absent)
        coordinate(c) == IF c = Absent THEN "undefined" ELSE ToString(c[1])
    IN  CASE message.type = "text" ->
               plain(IF obj # Absent /\ HasText(obj[1].body) THEN obj[1].body ELSE "")
          [] message.type \in {"image", "video", "audio", "document"} ->
               IF obj = Absent
               THEN plain(mediaContent)
               ELSE MappedFields(mediaContent, obj[1].id, obj[1].mime_type,
                                 obj[1].file_size, NULL, Absent)
          [] message.type = "location" ->
               IF obj = Absent
               THEN plain("Location: undefined, undefined")
               ELSE plain("Location: " \o coordinate(obj[1].latitude) \o ", "
                              \o coordinate(obj[1].longitude)
                              \o (IF HasText(obj[1].name)
                                  THEN " (" \o obj[1].name \o ")" ELSE ""))
          [] message.type = "contacts" ->
               IF obj # Absent /\ obj[1] # <<>> /\ HasText(obj[1][1].formatted_name)
               THEN plain("Contact: " \o obj[1][1].formatted_name)
               ELSE plain("Contact: Contact shared")
          [] message.type = "interactive" /\ obj[1].type = "button_reply" ->
               LET reply == obj[1].button_reply[1]
               IN  MappedFields("Button: " \o reply.title, NULL, NULL, Absent,
                                "button_reply",
                                Present([type |-> "button_reply", button_id |-> reply.id,
                                         button_title |-> reply.title]))
          [] message.type = "interactive" /\ obj[1].type = "list_reply" ->
               LET reply == obj[1].list_reply[1]
               IN  MappedFields("List: " \o reply.title, NULL, NULL, Absent,
                                "list_reply",
                                Present([type |-> "list_reply", list_id |-> reply.id,
                                         list_title |-> reply.title,
                                         list_description |-> reply.description]))

RowFields(row) ==
    MappedFields(row.content, row.media_url, row.media_type, row.media_size,
                 row.interactive_type, row.interactive_data)

\* the step persists the record of the message under way
Persists(j) == j > Len(incoming_messages) /\ j <= Len(incoming_messages')

MessagesHandled ==
    {ev.message : ev \in {e \in UNION {SeqElems(EnvelopeEvents(proc[1].batch[i])) :
                                          i \in 1..Len(proc[1].batch)} :
                             e.kind = "message"}}

\* a reply message names its subtype and carries the reply object of it
ReplyObjectMissing(message) ==
    /\ message.type = "interactive"
    /\ message.interactive # Absent
    /\ \/ /\ message.interactive[1].type = "button_reply"
          /\ message.interactive[1].button_reply = Absent
       \/ /\ message.interactive[1].type = "list_reply"
          /\ message.interactive[1].list_reply = Absent

\* C21: extraction fails soft: whatever the type of an incoming message (the
\* legacy button type, an interactive message with an unrecognised or missing
\* subtype, an unknown type), handling it reports no error and its record is
\* persisted, an unknown type with the content "<type> message".
C21_ExtractionFailsSoft ==
    \A r \in EventResultsOf(1) :
        (/\ r.type = "incoming_message"
         /\ \A m \in MessagesHandled : ~ReplyObjectMissing(m)) =>
            /\ r.success /\ r.error = NULL
            /\ \E j \in IncomingRowsOf(r.id) :
                   incoming_messages[j].message_type \notin
                       {"text", "image", "video", "audio", "document", "location",
                        "contacts", "interactive", "button"} =>
                       incoming_messages[j].content =
                           incoming_messages[j].message_type \o " message"

\* ledger entries a context id names
KnownEntries(contextId) == {r \in messages : r.whatsapp_message_id = contextId}

\* C22: a reply whose context id is the provider message id of a ledger
\* entry is persisted with that entry's campaign id as context campaign; a
\* reply whose context id names no entry, or whose lookup fails, is persisted
\* with a null context campaign, and the lookup raises no error either way.
C22_ReplyLinkage ==
    [][\A p \in Procs :
        /\ (proc[p].pc = "msg_find_context" /\ proc'[p] # proc[p]) =>
              LET contextId == CurrentEvent(proc[p]).context
              IN  /\ proc'[p].pc = "msg_create"
                  /\ proc'[p].evResults = proc[p].evResults
                  /\ IF dbUp /\ KnownEntries(contextId) # {}
                     THEN \E r \in KnownEntries(contextId) :
                              proc'[p].ctxCampaign = r.campaign_id
                     ELSE proc'[p].ctxCampaign = NULL
        /\ (/\ proc[p].pc = "msg_create"
            /\ proc'[p] # proc[p]
            /\ Len(incoming_messages') > Len(incoming_messages)) =>
              LET row == incoming_messages'[Len(incoming_messages')]
              IN  /\ row.whatsapp_message_id = CurrentEvent(proc[p]).id
                  /\ row.context_campaign_id = proc[p].ctxCampaign
                  /\ ~Truthy(CurrentEvent(proc[p]).context) =>
                         row.context_campaign_id = NULL]_vars

C22_Witness ==
    /\ \E j \in IncomingRowsOf("in3") :
          /\ incoming_messages[j].context_campaign_id = "camp1"
          /\ incoming_messages[j].context_message_id = "wamid1"
    /\ \E j \in IncomingRowsOf("in8") :
          /\ incoming_messages[j].context_campaign_id = NULL
          /\ incoming_messages[j].context_message_id = NULL

\* tenant T matches the routing identifiers of a payload
MatchesAccount(o, payload) ==
    Truthy(FirstEntryId(payload)) /\ o.whatsapp_business_account_id = FirstEntryId(payload)

MatchesPhone(o, payload) ==
    Truthy(FirstPhoneNumberId(payload))
        /\ o.whatsapp_phone_number_id = FirstPhoneNumberId(payload)

\* the tenant a lookup resolved is active and is named by the payload
ResolvedByRouting(orgId, payload) ==
    \E o \in organizations :
        /\ o.id = orgId
        /\ o.status = "active"
        /\ MatchesAccount(o, payload) \/ MatchesPhone(o, payload)

\* C23: the tenant resolved from a payload's routing identifiers is active
\* and has the first entry's account id or the first change's phone number
\* id; the account id is looked up first and the phone number id only when
\* that lookup gave nothing; a tenant that is inactive or suspended is never
\* resolved.
C23_ResolvedByRouting ==
    /\ [](rcvOrg # NULL => ResolvedByRouting(rcvOrg, PayloadOf(rcvReq.body)))
    /\ [](\A p \in Procs :
             (proc[p].pc \notin {"idle", "returned", "find_by_account", "find_by_phone"}) =>
                 ResolvedByRouting(proc[p].org, CurrentPayload(proc[p])))
    /\ [][\A p \in Procs :
             (proc[p].pc = "find_by_account" /\ proc'[p].pc = "find_by_phone") =>
                 ~\E o \in organizations :
                     o.status = "active" /\ MatchesAccount(o, CurrentPayload(proc[p]))]_vars
    /\ [][/\ (rcvPc = "idle" /\ rcvPc' = "find_by_phone") =>
                ~Truthy(FirstEntryId(PayloadOf(rcvReq'.body)))
          /\ (rcvPc = "find_by_account" /\ rcvPc' = "find_by_phone") =>
                \/ ~dbUp
                \/ ~\E o \in organizations :
                       o.status = "active" /\ MatchesAccount(o, PayloadOf(rcvReq.body))
          /\ (rcvPc = "find_by_account" /\ rcvOrg' # NULL) =>
                MatchesAccount(OrgById(rcvOrg'), PayloadOf(rcvReq.body))
          /\ (rcvPc = "find_by_phone" /\ rcvOrg' # NULL) =>
                MatchesPhone(OrgById(rcvOrg'), PayloadOf(rcvReq.body))]_vars

\* a payload naming org1 by account and org2 by phone is resolved to org1, and
\* one with an unknown account and org2's phone has been resolved to org2
C23_Witness ==
    /\ rcvReq.body = "acct1_phone2"
    /\ rcvOrg = "org1"
    /\ rcvPc = "send_sqs"
    /\ \E i \in 1..Len(sqsQueue) : sqsQueue[i].Body.webhookPayload = "acct9_phone2"

\* C24: a tenant lookup made while the store is unavailable is not answered
\* as an absent tenant: the receiver does not answer 403 to the request whose
\* token or routing lookup met the unavailable store.
C24_LookupErrorPropagated ==
    [][(/\ rcvPc \in {"verify_token", "find_by_account", "find_by_phone"}
        /\ ~dbUp
        /\ rcvPc' # rcvPc) =>
           rcvResp'.statusCode # 403]_vars

\* the header, with the scheme prefix stripped, is the hex keyed hash of the
\* body under the secret
HeaderIsHexHash(req, secret) ==
    /\ req.signature.present
    /\ req.signature.hex = HmacSha256Hex(req.body, secret)
    /\ req.signature.tail = ""

\* C25: for a tenant with a signing secret the signature check passes exactly
\* when the header, with the "sha256=" prefix stripped, is the hex keyed hash
\* of the raw body under the secret; a missing header or a malformed or
\* wrong-length digest is refused.
C25_VerifiesExactlyTheHexHash ==
    [][(/\ rcvPc \in {"find_by_account", "find_by_phone"}
        /\ rcvOrg' # NULL
        /\ Truthy(OrgById(rcvOrg').whatsapp_app_secret)) =>
           ((rcvPc' = "send_sqs") <=>
                HeaderIsHexHash(rcvReq, OrgById(rcvOrg').whatsapp_app_secret))]_vars

\* the campaigns of a tenant
CampaignsOf(org) == {r.campaign_id : r \in {m \in InitMessages : m.organization_id = org}}

\* C26: an event of an envelope resolved to a tenant changes no ledger entry,
\* audience entry or campaign counter of another tenant, and a reply
\* received for a tenant is linked to no campaign of another tenant.
C26_OrganizationsIsolated ==
    [][LET org == proc'[1].org
       IN  /\ \A r \in messages : r.organization_id # org => r \in messages'
           /\ \A r \in campaign_audience :
                  r.organization_id # org => r \in campaign_audience'
           /\ \A c \in DOMAIN campaigns :
                  c \notin CampaignsOf(org) => campaigns'[c] = campaigns[c]
           /\ \A j \in 1..Len(incoming_messages') :
                  (j > Len(incoming_messages)
                   /\ incoming_messages'[j].context_campaign_id # NULL) =>
                      incoming_messages'[j].context_campaign_id \in
                          CampaignsOf(incoming_messages'[j].organization_id)]_vars

\* the status the receiver owes a request, from the request and the tenants
\* alone, while store and queue answer
ExpectedStatus(req) ==
    IF req.httpMethod = "GET"
    THEN IF ValidVerification(req) THEN 200 ELSE 403
    ELSE IF ~JsonParses(req.body) THEN 500
    ELSE IF AuthenticationFails(req) THEN 403
    ELSE 200

\* reconciliation has changed the ledgers, the incoming messages or the audit
\* log since the start
Reconciled ==
    messages # InitMessages \/ incoming_messages # <<>> \/ webhook_events # <<>>

\* C27: every answer of the receiver to a verification or delivery request
\* has status 200, 403 or 5xx, and it is the answer the request and the
\* tenants determine, whatever reconciliation has made of the ledgers, the
\* incoming messages and the audit log in the meantime.
C27_AnswersIndependentOfReconciliation ==
    (rcvPc = "idle" /\ rcvReq.httpMethod \in {"GET", "POST"}) =>
        /\ rcvResp.statusCode \in {200, 403} \cup 500..599
        /\ (dbUp /\ sqsUp /\ outages = 0) =>
               rcvResp.statusCode = ExpectedStatus(rcvReq)

C27_Witness ==
    /\ rcvPc = "idle"
    /\ rcvReq.httpMethod = "POST"
    /\ rcvResp.statusCode = 200
    /\ messages # InitMessages
    /\ webhook_events # <<>>
    /\ rcvSqsResult = 2

\* C28: a request whose method is neither GET nor POST is answered at once
\* with 405 "Method not allowed": the receiver starts no tenant lookup, writes
\* nothing to the store and publishes nothing to the queue for it.
C28_OtherMethodRejected ==
    /\ []((rcvReq # NoRequest /\ rcvReq.httpMethod \notin {"GET", "POST"}) =>
              /\ rcvPc = "idle"
              /\ rcvResp.statusCode = 405
              /\ rcvResp.body = "Method not allowed"
              /\ rcvOrg = NULL
              /\ rcvSends = 0)
    /\ [][(/\ rcvPc = "idle"
           /\ rcvReq' # NoRequest
           /\ rcvReq'.httpMethod \notin {"GET", "POST"}) =>
              /\ rcvPc' = "idle"
              /\ sqsQueue' = sqsQueue
              /\ nextSqsId' = nextSqsId
              /\ storeVars' = storeVars
              /\ organizations' = organizations]_vars

\* a request of another method has been answered after a delivery was queued
C28_Witness ==
    /\ rcvPc = "idle"
    /\ rcvReq.httpMethod = "PUT"
    /\ rcvResp.statusCode = 405
    /\ sqsQueue # <<>>

\* the active organization whose business account id is the id of the
\* request's first entry, NULL when there is none
AccountTenant(req) ==
    IF JsonParses(req.body)
    THEN FirstRowId(ActiveOrgsBy("whatsapp_business_account_id",
                                 FirstEntryId(PayloadOf(req.body))))
    ELSE NULL

\* the signature of the request is valid for the organization, or the
\* organization has no secret to check it with
SignatureValidOrNotRequired(req, org) ==
    \/ ~Truthy(OrgById(org).whatsapp_app_secret)
    \/ SignatureMatches(req, OrgById(org).whatsapp_app_secret)

\* C29: the single-Lambda handler answers 200 to a POST whose first entry id
\* is the business account id of an active organization and whose signature is
\* valid or not required, having resolved it to that organization and written
\* an audit row with that organization's id for each of its status and
\* message events.
C29_SingleLambdaResolvesByAccount ==
    (/\ rcvReq.httpMethod = "POST"
     /\ dbUp /\ outages = 0
     /\ AccountTenant(rcvReq) # NULL
     /\ SignatureValidOrNotRequired(rcvReq, AccountTenant(rcvReq))) =>
        /\ rcvResp.statusCode = 200
        /\ rcvOrg = AccountTenant(rcvReq)
        /\ \A i \in 1..Len(EntryEvents(PayloadOf(rcvReq.body))) :
               \E j \in 1..Len(webhook_events) :
                   /\ webhook_events[j].organization_id = AccountTenant(rcvReq)
                   /\ webhook_events[j].whatsapp_message_id =
                          EntryEvents(PayloadOf(rcvReq.body))[i].id

\* C30: a step of the receiver, on the verification path and on the delivery
\* path, leaves the ledgers, the campaigns, the incoming messages and the
\* audit log as they were, and no step of the receiver or of the db-processor
\* changes the organizations table.
C30_ReceiverReadsOnly ==
    [][/\ organizations' = organizations
       /\ (rcvVars' # rcvVars) => storeVars' = storeVars]_vars

\* a verification and a delivery have been answered from lookups, and the
\* db-processor has written to the store, with the organizations as they were
C30_Witness ==
    /\ rcvPc = "idle"
    /\ rcvReq.httpMethod = "GET"
    /\ rcvResp.statusCode = 200
    /\ sqsDeleted # {}
    /\ incoming_messages # <<>>
    /\ organizations = InitOrganizations

\* the organization the receiver resolved has no signing secret
ResolvedWithoutSecret(org) ==
    org # NULL /\ ~Truthy(OrgById(org).whatsapp_app_secret)

\* C31: a delivery resolved to a tenant that has no signing secret goes on to
\* the publish whatever its signature header is, the publish appends its
\* envelope when the queue accepts it, and the request is answered 200 (5xx
\* only when the queue refused the publish), never 403.
C31_NoSecretSkipsVerification ==
    /\ []((/\ rcvPc = "idle"
           /\ rcvReq.httpMethod = "POST"
           /\ ResolvedWithoutSecret(rcvOrg)) =>
              /\ rcvResp.statusCode \in {200} \cup 500..599
              /\ rcvResp.statusCode = 200 =>
                     \E i \in PublishedBy(rcvResp.messageId) :
                         sqsQueue[i].Body = EnvelopeBody(rcvReq.body))
    /\ [][(/\ rcvPc \in {"find_by_account", "find_by_phone"}
           /\ ResolvedWithoutSecret(rcvOrg')) =>
              rcvPc' = "send_sqs"]_vars
    /\ [][(/\ rcvPc = "send_sqs"
           /\ ResolvedWithoutSecret(rcvOrg)
           /\ sqsUp
           /\ rcvPc' # rcvPc) =>
              sqsQueue' = Append(sqsQueue,
                                 SqsMessage(nextSqsId, EnvelopeBody(rcvReq.body)))]_vars

\* a delivery for the tenant without secret was accepted with a signature
\* header that matches nothing
C31_Witness ==
    /\ rcvPc = "idle"
    /\ rcvReq.httpMethod = "POST"
    /\ rcvOrg = "org2"
    /\ rcvReq.signature.present
    /\ ~SignatureMatches(rcvReq, "sec1")
    /\ rcvResp.statusCode = 200
    /\ sqsQueue # <<>>

\* the execution has returned, having handled a delivery of the message as a
\* duplicate without error
RedeliveryReconciled(p, id) ==
    /\ proc[p].pc = "returned"
    /\ \E r \in EventResultsOf(p) :
           r.type = "incoming_message" /\ r.id = id /\ r.success /\ r.duplicate

\* C32: once a redelivery of an incoming message has been reconciled and no
\* other execution is still at work, the message's row is marked processed and
\* has an audit row, also when the execution that inserted the row stopped
\* before it created the audit row or marked the two processed.
C32_AbortIsRecovered ==
    \A p \in Procs :
        (/\ RedeliveryReconciled(p, "in1")
         /\ \A q \in Procs \ {p} : proc[q].pc = "idle") =>
            \A j \in IncomingRowsOf("in1") :
                /\ incoming_messages[j].processed
                /\ AuditRowsOf("in1") # {}

\* C33: once every execution has finished, every provider message id that has
\* a row in the message ledger and a row in the campaign audience has the same
\* lifecycle status in both, also after status events for it were reconciled
\* by concurrent executions or one of the two updates raised an error.
C33_LedgersInLockstep ==
    (\A p \in Procs : proc[p].pc = "idle") =>
        \A m \in messages : \A a \in campaign_audience :
            m.whatsapp_message_id = a.whatsapp_message_id =>
                m.message_status = a.message_status

\* the timestamp column of a lifecycle stage
StageColumn(status) ==
    CASE status = "sent" -> "sent_at"
      [] status = "delivered" -> "delivered_at"
      [] status = "read" -> "read_at"

EventIdsOf(payload) ==
    [i \in 1..Len(EntryEvents(payload)) |-> EntryEvents(payload)[i].id]

C36_EnvelopeSuccessMeansAllEvents ==
    \A p \in Procs : \A r \in SeqElems(proc[p].results) :
        r.success => \A e \in SeqElems(r.processingResults) : e.success

\* the execution has just recorded the failure of an event
EventJustFailed(p) ==
    /\ proc[p].pc \notin {"idle", "returned"}
    /\ Len(proc'[p].evResults) = Len(proc[p].evResults) + 1
    /\ ~proc'[p].evResults[Len(proc'[p].evResults)].success

\* C37: the failure of one event of an envelope is recorded as that event's
\* own result and the handler goes on to the next event of the envelope, or,
\* after the last one, to the envelope's result with one result per event in
\* the order of the payload, failures and successes alike.
C37_EventFailureIsContained ==
    /\ [][\A p \in Procs :
             (EventJustFailed(p) /\ proc[p].evIdx < Len(EntryEvents(CurrentPayload(proc[p])))) =>
                 /\ proc'[p].recIdx = proc[p].recIdx
                 /\ proc'[p].evIdx = proc[p].evIdx + 1
                 /\ proc'[p].pc \in {"status_create_event", "msg_is_duplicate"}
                 /\ proc'[p].results = proc[p].results]_vars
    /\ [](\A p \in Procs :
             proc[p].pc = "returned" =>
                 \A i \in 1..Len(proc[p].results) :
                     proc[p].results[i].error # "Organization not found" =>
                         [j \in 1..Len(proc[p].results[i].processingResults) |->
                             proc[p].results[i].processingResults[j].id]
                           = EventIdsOf(PayloadOf(proc[p].batch[i].Body.webhookPayload)))

\* the status event of a two-event envelope failed and the message after it
\* was reconciled
C37_Witness ==
    /\ proc[1].pc = "returned"
    /\ proc[1].batch[1].Body = EnvelopeBody("mixed")
    /\ Len(proc[1].results[1].processingResults) = 2
    /\ ~proc[1].results[1].processingResults[1].success
    /\ proc[1].results[1].processingResults[2].success
    /\ \E j \in IncomingRowsOf("in1") : incoming_messages[j].processed

\* the active tenant whose account id is the id of the entry, NULL when none
EntryTenant(entry) ==
    FirstRowId({o \in InitOrganizations :
                   /\ o.status = "active"
                   /\ o.whatsapp_business_account_id = entry.id})

\* the rows of the audit log and of the incoming messages with the message id
RecordedTenants(id) ==
    {webhook_events[i].organization_id :
        i \in {j \in 1..Len(webhook_events) : webhook_events[j].whatsapp_message_id = id}}
      \cup {incoming_messages[i].organization_id : i \in IncomingRowsOf(id)}

\* C38: every audit row and every incoming-message row written for an event
\* carries the id of the active tenant whose account id is the id of the entry
\* the event came in, for every entry of the payload; an event of an entry
\* whose id names no active tenant has no row.
C38_RecordsCarryEntryTenant ==
    \A i \in 1..Len(proc[1].batch) :
        LET payload == PayloadOf(proc[1].batch[i].Body.webhookPayload)
        IN  \A e \in 1..Len(payload) :
                Truthy(payload[e].id) =>
                    \A ev \in SeqElems(ChangeEvents(payload[e].changes)) :
                        RecordedTenants(ev.id) \subseteq {EntryTenant(payload[e])} \ {NULL}

\* C39: once every execution has finished, with the store available all the
\* time, the counters of each campaign are the current per-status counts of
\* its audience rows, also when status events for rows of the campaign were
\* reconciled by concurrent executions.
C39_CountersAfterConcurrentUpdates ==
    (/\ \A p \in Procs : proc[p].pc = "idle"
     /\ outages = 0 /\ dbUp) =>
        \A c \in DOMAIN campaigns :
            campaigns[c] = CampaignStats(campaign_audience, c)

\* position of a step within the handling of one event or of the lookup
StepRank(pc) ==
    CASE pc = "find_by_account" -> 1
      [] pc = "find_by_phone" -> 2
      [] pc \in {"status_create_event", "msg_is_duplicate"} -> 1
      [] pc \in {"status_update_message", "msg_find_context"} -> 2
      [] pc \in {"status_update_audience", "msg_create"} -> 3
      [] pc \in {"stats_select", "msg_create_event"} -> 4
      [] pc \in {"stats_update", "msg_mark_incoming"} -> 5
      [] pc \in {"status_mark", "status_mark_updated", "msg_mark_event"} -> 6
      [] pc = "mark_error" -> 7
      [] OTHER -> 0

\* how far the handler has come in its batch: record, then event, then step
HandlerProgress(st) ==
    st.recIdx * 1000
        + (IF st.pc \in {"find_by_account", "find_by_phone", "returned"}
           THEN 0 ELSE st.evIdx * 10)
        + StepRank(st.pc)

\* C40: every step of a handler run brings it strictly further in its finite
\* batch, so the run ends; it ends by returning, with one result per envelope
\* of the batch in batch order, processedRecords the size of the batch and
\* successfulRecords + failedRecords = processedRecords, whatever failed in
\* an envelope (parse error, unresolved tenant, store error).
C40_HandlerReturnsOneResultPerEnvelope ==
    /\ [][\A p \in Procs :
             (proc[p].pc \notin {"idle", "returned"} /\ proc'[p] # proc[p]) =>
                 /\ HandlerProgress(proc'[p]) > HandlerProgress(proc[p])
                 /\ proc'[p].recIdx <= Len(proc[p].batch) + 1
                 /\ proc'[p].batch = proc[p].batch
                 /\ proc'[p].pc # "idle"]_vars
    /\ [](\A p \in Procs :
             /\ proc[p].pc \notin {"idle", "returned"} =>
                    proc[p].recIdx \in 1..Len(proc[p].batch)
             /\ proc[p].pc = "returned" =>
                    LET r == proc[p].response
                    IN  /\ r.statusCode = 200
                        /\ r.processedRecords = Len(proc[p].batch)
                        /\ r.successfulRecords + r.failedRecords = r.processedRecords
                        /\ Len(r.results) = Len(proc[p].batch)
                        /\ \A i \in 1..Len(proc[p].batch) :
                               r.results[i].messageId = proc[p].batch[i].MessageId)

\* a batch of a malformed envelope and an envelope whose event met the store
\* outage has returned with two results
C40_Witness ==
    /\ proc[1].pc = "returned"
    /\ Len(proc[1].batch) = 2
    /\ proc[1].response.processedRecords = 2
    /\ proc[1].response.results[1].error = "Unexpected token"
    /\ \E e \in SeqElems(proc[1].response.results[2].processingResults) :
           ~e.success /\ e.error = "store unavailable"

=============================================================================
